---- MODULE Spec2Model ----
(***************************************************************************)
(* The pristine of libpijul (channels' graph / changes / revchanges /      *)
(* states / tags tables and the cross-channel internal / external / dep /  *)
(* revdep tables) under patch application and the unrecord engine of       *)
(* libpijul/src/unrecord/mod.rs, with the alive-graph retrieval of         *)
(* libpijul/src/alive/retrieve.rs.                                         *)
(*                                                                         *)
(* Every B-tree table is a set of (key, value) pairs.  The graph table is  *)
(* a set of adjacency entries [k, flag, dest, by]: the edge stored under   *)
(* vertex k, with its flags, its destination position and its introducer.  *)
(***************************************************************************)
EXTENDS Integers, Sequences, FiniteSets, TLC

(* ------------------------------------------------------------ bounds --- *)

\* The number of applications over all channels (the cap on the sum of
\* the apply_counters, which never decrease).
MaxApply == 3
\* The number of tags held at a time over all channels.
MaxTags == 1
MaxPages == 12
\* The number of B-trees of a tagged channel that have more than one page.
MaxTrees == 2

\* The number of bytes of the vertex that is cut into pieces.
MaxPieces == 3

(* ------------------------------------------------- identifiers, flags --- *)

ROOT == 0
ROOT_VERTEX == <<ROOT, 0, 0>>
NoVertex == <<-1, 0, 0>>
NoId == ROOT - 1

Chans == {"main", "dev"}

BLOCK == "BLOCK"
PSEUDO == "PSEUDO"
FOLDER == "FOLDER"
PARENT == "PARENT"
DELETED == "DELETED"
AllFlags == {BLOCK, PSEUDO, FOLDER, PARENT, DELETED}

\* The numeric value of a flag set: B-tree iteration and iter_adjacent's
\* [min, max] range go by it.
FlagVal(f) ==
    (IF BLOCK \in f THEN 1 ELSE 0) + (IF PSEUDO \in f THEN 4 ELSE 0)
    + (IF FOLDER \in f THEN 16 ELSE 0) + (IF PARENT \in f THEN 32 ELSE 0)
    + (IF DELETED \in f THEN 128 ELSE 0)

Max(S) == CHOOSE x \in S : \A y \in S : y <= x
Min(S) == CHOOSE x \in S : \A y \in S : x <= y

(* ----------------------------------------------------- ordered tables --- *)

Has(tbl, k) == \E x \in tbl : x[1] = k
Get(tbl, k) == {x[2] : x \in {y \in tbl : y[1] = k}}
GetOne(tbl, k) == CHOOSE v \in Get(tbl, k) : TRUE
Del(tbl, k) == {x \in tbl : x[1] # k}
Keys(tbl) == {x[1] : x \in tbl}

(* ------------------------------------------------- the change store --- *)

Hashes == {"hp", "hq", "hq2", "hs"}

NewVertex(start, end, up) ==
    [type |-> "NewVertex", start |-> start, end |-> end, inode |-> <<"ROOT", 0>>,
     flag |-> {BLOCK}, up_context |-> up, down_context |-> <<>>,
     edges |-> <<>>]

EdgeMap(edges) ==
    [type |-> "EdgeMap", start |-> 0, end |-> 0, inode |-> <<"ROOT", 0>>,
     flag |-> {}, up_context |-> <<>>, down_context |-> <<>>,
     edges |-> edges]

\* An edge map that deletes again the edge to hp's line, once for each of
\* the changes that had put or deleted it before.
Redelete(intros) ==
    EdgeMap([i \in DOMAIN intros |->
               [from |-> <<"ROOT", 0>>, to |-> <<"hp", 0, 3>>,
                previous |-> {BLOCK, DELETED}, flag |-> {BLOCK, DELETED},
                introduced_by |-> intros[i]]])

\* hp inserts one line under the root (scenario S1), hs inserts two lines
\* one after the other, hq and hq2 each delete hp's line (scenario S4).
\* hx and hy are two sides of a conflict on that line: each deletes the edge
\* of the other, and hy also the edge that hs put.
Change(h) ==
    CASE h = "hx" -> [dependencies |-> {"hp"}, changes |-> <<Redelete(<<"hy">>)>>]
      [] h = "hy" -> [dependencies |-> {"hp"}, changes |-> <<Redelete(<<"hx", "hs">>)>>]
      [] h = "hp" ->
           [dependencies |-> {},
            changes |-> <<NewVertex(0, 3, <<<<"ROOT", 0>>>>)>>]
      [] h = "hs" ->
           [dependencies |-> {},
            changes |-> <<NewVertex(0, 2, <<<<"ROOT", 0>>>>),
                          NewVertex(2, 5, <<<<"None", 2>>>>)>>]
      [] OTHER ->
           [dependencies |-> {"hp"},
            changes |-> <<EdgeMap(<<[from |-> <<"ROOT", 0>>,
                                     to |-> <<"hp", 0, 3>>,
                                     previous |-> {BLOCK},
                                     flag |-> {BLOCK, DELETED},
                                     introduced_by |-> "hp"]>>)>>]

\* The first bytes of a hash, from which make_changeid starts.
BaseId(h) == CASE h = "hp" -> 1 [] h = "hs" -> 1 [] h = "hq" -> 3 [] OTHER -> 4

RECURSIVE ProbeId(_, _, _)
ProbeId(ext, h, p) ==
    IF Has(ext, p) /\ GetOne(ext, p) # h THEN ProbeId(ext, h, p + 1) ELSE p

make_changeid(P, h) ==
    IF Has(P.internal, h) THEN GetOne(P.internal, h)
    ELSE ProbeId(P.external, h, BaseId(h))

\* Option<Hash> -> ChangeId: None is the change at hand.
internal(P, oh, change_id) ==
    IF oh = "None" THEN change_id
    ELSE IF oh = "ROOT" THEN ROOT
    ELSE IF Has(P.internal, oh) THEN GetOne(P.internal, oh) ELSE NoId

internal_pos(P, pos, change_id) == <<internal(P, pos[1], change_id), pos[2]>>

(* -------------------------------------------------- graph primitives --- *)

Entry(k, flag, dest, by) == [k |-> k, flag |-> flag, dest |-> dest, by |-> by]
start_pos(v) == <<v[1], v[2]>>
end_pos(v) == <<v[1], v[3]>>
Vertices(G) == {e.k : e \in G}

\* B-tree order of the entries stored under one vertex.
EdgeKey(e) == <<FlagVal(e.flag), e.dest[1], e.dest[2], e.by>>
TupleLess(a, b) ==
    \E i \in 1..4 : a[i] < b[i] /\ \A j \in 1..(i - 1) : a[j] = b[j]
EdgeLess(e, f) == TupleLess(EdgeKey(e), EdgeKey(f))

RECURSIVE SortEdges(_)
SortEdges(S) ==
    IF S = {} THEN <<>>
    ELSE LET m == CHOOSE e \in S : \A f \in S \ {e} : EdgeLess(e, f)
         IN <<m>> \o SortEdges(S \ {m})

iter_adj_all(G, v) == SortEdges({e \in G : e.k = v})

iter_adjacent(G, v, min_flag, max_flag) ==
    SortEdges({e \in G : /\ e.k = v
                         /\ FlagVal(min_flag) <= FlagVal(e.flag)
                         /\ FlagVal(e.flag) <= FlagVal(max_flag)})

find_block(G, p) ==
    IF p[1] = ROOT THEN ROOT_VERTEX
    ELSE LET c == {v \in Vertices(G) :
                     /\ v[1] = p[1] /\ v[2] <= p[2]
                     /\ (p[2] < v[3] \/ (v[2] = v[3] /\ v[3] = p[2]))}
         IN IF c = {} THEN NoVertex ELSE CHOOSE v \in c : TRUE

find_block_end(G, p) ==
    IF p[1] = ROOT THEN ROOT_VERTEX
    ELSE LET c == {v \in Vertices(G) :
                     /\ v[1] = p[1] /\ p[2] <= v[3]
                     /\ (v[2] < p[2] \/ (v[2] = v[3] /\ v[2] = p[2]))}
         IN IF c = {} THEN NoVertex ELSE CHOOSE v \in c : TRUE

put_graph_with_rev(G, flag, u, v, by) ==
    G \cup {Entry(u, flag \ {PARENT}, start_pos(v), by),
            Entry(v, flag \cup {PARENT}, end_pos(u), by)}

del_graph(G, k, flag, dest, by) == G \ {Entry(k, flag, dest, by)}

del_graph_with_rev(G, flag, k0, k1, by) ==
    LET a == IF PARENT \in flag THEN k1 ELSE k0
        b == IF PARENT \in flag THEN k0 ELSE k1
        f == flag \ {PARENT}
    IN del_graph(del_graph(G, a, f, start_pos(b), by),
                 b, f \cup {PARENT}, end_pos(a), by)

\* An incoming edge makes its target alive when it is neither DELETED nor
\* PSEUDO: a vertex that only pseudo-edges connect to the live graph is dead.
is_alive(G, v) ==
    \/ v = ROOT_VERTEX
    \/ \E e \in G : e.k = v /\ PARENT \in e.flag /\ e.flag \cap {DELETED, PSEUDO} = {}

(* --------------------------------------------------- alive retrieval --- *)

BOTTOM == <<ROOT, 1>>
DUMMY_ID == 0
inode_vertex(pos) == <<pos[1], pos[2], pos[2]>>
AliveVertex(v, fl) == [vertex |-> v, flags |-> fl, children |-> 0, n_children |-> 0]

\* new_vertex as it would be without the is_alive test (lines 85-88).
new_vertex_unchecked(G, pos) ==
    LET flags(adj) ==
          IF \E i \in DOMAIN adj : {PARENT, DELETED, BLOCK} \subseteq adj[i].flag
          THEN {"ZOMBIE"} ELSE {}
        of(vertex) ==
          IF vertex = NoVertex
          THEN [panic |-> TRUE, some |-> FALSE, alive |-> AliveVertex(vertex, {})]
          ELSE [panic |-> FALSE, some |-> TRUE,
                alive |-> AliveVertex(vertex,
                   flags(iter_adjacent(G, vertex, {PARENT, DELETED, BLOCK}, AllFlags)))]
    IN of(find_block(G, pos))

new_vertex(G, pos) ==
    LET flags(adj) ==
          IF \E i \in DOMAIN adj : {PARENT, DELETED, BLOCK} \subseteq adj[i].flag
          THEN {"ZOMBIE"} ELSE {}
        of(vertex) ==
          IF vertex = NoVertex
          THEN [panic |-> TRUE, some |-> FALSE, alive |-> AliveVertex(vertex, {})]
          ELSE IF ~is_alive(G, vertex)
          THEN [panic |-> FALSE, some |-> FALSE, alive |-> AliveVertex(vertex, {})]
          ELSE [panic |-> FALSE, some |-> TRUE,
                alive |-> AliveVertex(vertex,
                   flags(iter_adjacent(G, vertex, {PARENT, DELETED, BLOCK}, AllFlags)))]
    IN of(find_block(G, pos))

\* Lines 67-70: the child is appended to the children of vertex id `vid`.
\* Vertex ids count from 0: id n is lines[n + 1].
retrieve_child(st, vid, e, dest_vid) ==
    IF start_pos(st.lines[vid + 1].vertex) = e.dest THEN [st EXCEPT !.panic = TRUE]
    ELSE [st EXCEPT !.children = Append(@, <<{e}, dest_vid>>),
                    !.lines[vid + 1].n_children = @ + 1]

\* retrieve_insert as it would be without stack.push(n) (line 59).
retrieve_insert_unstacked(st, e, alive) ==
    [st EXCEPT !.cache = @ \cup {<<e.dest, Len(st.lines)>>},
               !.total_bytes = @ + (alive.vertex[3] - alive.vertex[2]),
               !.lines = Append(@, alive)]

\* Lines 55-60: a vertex met for the first time gets the next id.
retrieve_insert(st, e, alive) ==
    [st EXCEPT !.cache = @ \cup {<<e.dest, Len(st.lines)>>},
               !.total_bytes = @ + (alive.vertex[3] - alive.vertex[2]),
               !.lines = Append(@, alive),
               !.stack = Append(@, Len(st.lines))]

retrieve_edge(G, st, vid, e) ==
    LET miss(nv) ==
          IF nv.panic THEN [st EXCEPT !.panic = TRUE]
          ELSE IF ~nv.some THEN st
          ELSE retrieve_child(retrieve_insert(st, e, nv.alive), vid, e, Len(st.lines))
    IN IF PARENT \in e.flag THEN st
       ELSE IF Has(st.cache, e.dest)
       THEN retrieve_child(st, vid, e, GetOne(st.cache, e.dest))
       ELSE miss(new_vertex(G, e.dest))

RECURSIVE retrieve_edges(_, _, _, _, _)
retrieve_edges(G, st, vid, es, i) ==
    IF i > Len(es) \/ st.panic THEN st
    ELSE retrieve_edges(G, retrieve_edge(G, st, vid, es[i]), vid, es, i + 1)

\* retrieve_pop as it would be without graph[vid].children = len (line 36).
retrieve_pop_unplaced(G, st, vid, include_deleted) ==
    LET close(st1) == [st1 EXCEPT !.children = Append(@, <<{}, DUMMY_ID>>),
                                  !.lines[vid + 1].n_children = @ + 1]
        run(st0) ==
          close(retrieve_edges(G, st0, vid,
                   iter_adjacent(G, st0.lines[vid + 1].vertex, {},
                                 IF include_deleted THEN {PSEUDO, BLOCK, DELETED}
                                 ELSE {PSEUDO, BLOCK}),
                   1))
    IN run([st EXCEPT !.stack = SubSeq(@, 1, Len(@) - 1)])

\* Lines 34-74: one popped vertex.
retrieve_pop(G, st, vid, include_deleted) ==
    LET close(st1) == [st1 EXCEPT !.children = Append(@, <<{}, DUMMY_ID>>),
                                  !.lines[vid + 1].n_children = @ + 1]
        run(st0) ==
          close(retrieve_edges(G, st0, vid,
                   iter_adjacent(G, st0.lines[vid + 1].vertex, {},
                                 IF include_deleted THEN {PSEUDO, BLOCK, DELETED}
                                 ELSE {PSEUDO, BLOCK}),
                   1))
    IN run([st EXCEPT !.stack = SubSeq(@, 1, Len(@) - 1),
                      !.lines[vid + 1].children = Len(st.children)])

RECURSIVE retrieve_loop(_, _, _)
retrieve_loop(G, st, include_deleted) ==
    IF st.stack = <<>> \/ st.panic THEN st
    ELSE retrieve_loop(G, retrieve_pop(G, st, st.stack[Len(st.stack)], include_deleted),
                       include_deleted)

\* Lines 18-33: the two initial slots, the cache and the stack.
retrieve_begin(pos0) ==
    [lines |-> <<AliveVertex(NoVertex, {}), AliveVertex(inode_vertex(pos0), {})>>,
     children |-> <<>>, total_bytes |-> 0,
     cache |-> {<<BOTTOM, DUMMY_ID>>, <<pos0, 1>>},
     stack |-> <<1>>, panic |-> FALSE]

retrieve(G, pos0, include_deleted) ==
    retrieve_loop(G, retrieve_begin(pos0), include_deleted)

\* The vertices of a retrieved graph, the DUMMY slot left out.
exposed(gr) == {gr.lines[i].vertex : i \in 2..Len(gr.lines)}

\* The child edges of a retrieved graph as (vertex id, edge, child id).
child_edges(gr) ==
    UNION {UNION {{<<n, e, gr.children[j][2]>> : e \in gr.children[j][1]} :
                    j \in (gr.lines[n + 1].children + 1) ..
                          (gr.lines[n + 1].children + gr.lines[n + 1].n_children)} :
             n \in 1..(Len(gr.lines) - 1)}

\* Vertex ids reachable through at least one child edge.
RECURSIVE reach_from(_, _, _)
reach_from(E, front, seen) ==
    LET more(nxt) == IF nxt = {} THEN seen ELSE reach_from(E, nxt, seen \cup nxt)
    IN more({x[3] : x \in {y \in E : y[1] \in front}} \ seen)
descendants(E, a) == reach_from(E, {a}, {})

\* tarjan + dfs + collect_forward_edges: the pseudo-edges a -> b that bridge
\* two strongly connected components while b is also reached from a through
\* another component.
forward_in(E) ==
    LET same_scc(a, b) == a = b \/ (b \in descendants(E, a) /\ a \in descendants(E, b))
    IN {x \in E :
          /\ PSEUDO \in x[2].flag
          /\ ~same_scc(x[1], x[3])
          /\ \E m \in descendants(E, x[1]) :
               /\ ~same_scc(m, x[1]) /\ ~same_scc(m, x[3])
               /\ x[3] \in descendants(E, m)}

\* The loop of remove_forward_edges as it would be if only the reverse of
\* each forward edge were deleted.
del_forward_reverse_only(G, fw) ==
    G \ {Entry(find_block(G, x[2].dest), x[2].flag \cup {PARENT},
               end_pos(x[2].k), x[2].by) : x \in fw}

del_forward(G, fw) ==
    G \ UNION {{x[2], Entry(find_block(G, x[2].dest), x[2].flag \cup {PARENT},
                            end_pos(x[2].k), x[2].by)} : x \in fw}

remove_forward_edges(G, pos) ==
    del_forward(G, forward_in(child_edges(retrieve(G, pos, FALSE))))

(* ------------------------------------------------ the pristine record --- *)

VARIABLES graph, changes, revchanges, states, tags, apply_counter,
          internal_, external, dep, revdep, last, call

pristine == <<graph, changes, revchanges, states, tags, internal_, external,
              dep, revdep>>
vars == <<graph, changes, revchanges, states, tags, apply_counter,
          internal_, external, dep, revdep, last, call>>

\* The transaction's view of all tables, as the engine's functions take it.
Txn ==
    [graph |-> graph, changes |-> changes, revchanges |-> revchanges,
     states |-> states, tags |-> tags, apply_counter |-> apply_counter,
     internal |-> internal_, external |-> external, dep |-> dep,
     revdep |-> revdep]

(* ------------------------------------------------- patch application --- *)

\* The state Merkle of a channel: the running hash over its applied
\* patches, which does not depend on their order.
current_state(P, ch) == {GetOne(P.external, c) : c \in Keys(P.changes[ch])}

register_change(P, id, h) ==
    IF Has(P.internal, h) THEN P
    ELSE LET deps == {GetOne(P.internal, d) : d \in Change(h).dependencies}
         IN [P EXCEPT !.internal = @ \cup {<<h, id>>},
                      !.external = @ \cup {<<id, h>>},
                      !.dep = @ \cup {<<id, d>> : d \in deps},
                      !.revdep = @ \cup {<<d, id>> : d \in deps}]

put_changes(P, ch, id, h) ==
    LET t == P.apply_counter[ch]
        m == current_state(P, ch) \cup {h}
    IN [P EXCEPT !.apply_counter[ch] = @ + 1,
                 !.changes[ch] = @ \cup {<<id, t>>},
                 !.revchanges[ch] = @ \cup {<<t, <<id, m>>>>},
                 !.states[ch] = @ \cup {<<m, t>>}]

put_newvertex(P, G, id, a) ==
    LET v == <<id, a.start, a.end>>
        ups == {find_block_end(G, internal_pos(P, a.up_context[i], id)) :
                  i \in DOMAIN a.up_context}
        downs == {find_block(G, internal_pos(P, a.down_context[i], id)) :
                    i \in DOMAIN a.down_context}
    IN G \cup UNION {put_graph_with_rev({}, a.flag, u, v, id) : u \in ups}
         \cup UNION {put_graph_with_rev({}, a.flag, v, d, id) : d \in downs}

\* put_newedge's walk over the consecutive vertices of n.to: the edge with
\* the previous flags goes, and where apply_check selects the pair the edge
\* with the new flags, introduced by `change`, comes.
RECURSIVE put_newedge_from(_, _, _, _, _, _, _, _)
put_newedge_from(G, change, n, by, all, reintro, source, target) ==
    LET on(G2) ==
          LET to(next) ==
                IF next = NoVertex THEN [ok |-> FALSE, g |-> G2]
                ELSE put_newedge_from(G2, change, n, by, all, reintro, target, next)
          IN IF target[3] >= n.to[3] THEN [ok |-> TRUE, g |-> G2]
             ELSE to(find_block(G2, end_pos(target)))
        put(G1) ==
          on(IF all \/ <<source, target>> \in reintro
             THEN put_graph_with_rev(G1, n.flag, source, target, change)
             ELSE G1)
    IN put(del_graph_with_rev(G, n.previous, source, target, by))

put_newedge(P, G, change, n, all, reintro) ==
    LET from(source, target) ==
          IF source = NoVertex \/ target = NoVertex THEN [ok |-> FALSE, g |-> G]
          ELSE put_newedge_from(G, change, n, internal(P, n.introduced_by, change),
                                all, reintro, source, target)
    IN from(find_block_end(G, internal_pos(P, n.from, change)),
            find_block(G, <<internal(P, n.to[1], change), n.to[2]>>))

RECURSIVE put_edges(_, _, _, _, _)
put_edges(P, G, id, edges, i) ==
    IF i > Len(edges) THEN G
    ELSE put_edges(P, put_newedge(P, G, id, edges[i], TRUE, {}).g, id, edges, i + 1)

RECURSIVE apply_atoms(_, _, _, _, _)
apply_atoms(P, G, id, atoms, i) ==
    IF i > Len(atoms) THEN G
    ELSE apply_atoms(P,
            IF atoms[i].type = "NewVertex" THEN put_newvertex(P, G, id, atoms[i])
            ELSE put_edges(P, G, id, atoms[i].edges, 1),
            id, atoms, i + 1)

apply_change(P, ch, h) ==
    LET put(id, P2) ==
          [P2 EXCEPT !.graph[ch] = apply_atoms(P2, @, id, Change(h).changes, 1)]
        as(id) == put(id, put_changes(register_change(P, id, h), ch, id, h))
    IN as(make_changeid(P, h))

put_tags(P, ch) ==
    LET t == Max(Keys(P.revchanges[ch]))
    IN [P EXCEPT !.tags[ch] = @ \cup {<<t, current_state(P, ch)>>}]

(* ------------------------------------------------- the unrecord engine --- *)

Ok(G) == [ok |-> TRUE, g |-> G]
Fail(G) == [ok |-> FALSE, g |-> G]

\* The change's atoms as unapply iterates them: last first.
rev_atoms(change) ==
    [i \in 1..Len(change.changes) |-> change.changes[Len(change.changes) + 1 - i]]

\* perform_del as it would be without the reverse half: only the entry
\* stored under `vertex` is deleted.
RECURSIVE perform_del_one_half(_, _, _, _)
perform_del_one_half(G, del, i, vertex) ==
    IF i > Len(del) THEN Ok(G)
    ELSE perform_del_one_half(del_graph(G, vertex, del[i].flag, del[i].dest, del[i].by),
                              del, i + 1, vertex)

\* Workspace::perform_del: each queued entry of `vertex` goes with its dual.
RECURSIVE perform_del(_, _, _, _)
perform_del(G, del, i, vertex) ==
    LET pair(a, b) ==
          IF a = NoVertex \/ b = NoVertex THEN Fail(G)
          ELSE perform_del(del_graph_with_rev(G, del[i].flag \ {PARENT}, a, b, del[i].by),
                           del, i + 1, vertex)
    IN IF i > Len(del) THEN Ok(G)
       ELSE IF PARENT \in del[i].flag
       THEN pair(find_block_end(G, del[i].dest), vertex)
       ELSE pair(vertex, find_block(G, del[i].dest))

\* The neighbours of a live edge must be found (lines 305-318).
neighbours_found(G, del) ==
    \A i \in DOMAIN del :
       \/ DELETED \in del[i].flag
       \/ (PARENT \in del[i].flag /\ FOLDER \in del[i].flag)
       \/ (IF PARENT \in del[i].flag THEN find_block_end(G, del[i].dest)
           ELSE find_block(G, del[i].dest)) # NoVertex

\* unapply_newvertex_turn as it would be without pos.pos = vertex.end
\* (lines 325-327).
unapply_newvertex_turn_stuck(G, change_id, new_vertex_, pos, vertex) ==
    LET after(r) == [ok |-> r.ok, g |-> r.g, pos |-> pos]
        with(del) ==
          IF ~neighbours_found(G, del) THEN [ok |-> FALSE, g |-> G, pos |-> pos]
          ELSE after(perform_del(G, del, 1, vertex))
    IN with(iter_adj_all(G, vertex))

\* Lines 302-327: one turn of the loop, for the vertex found at pos.
unapply_newvertex_turn(G, change_id, new_vertex_, pos, vertex) ==
    LET next_pos == IF vertex[3] < new_vertex_.end
                    THEN <<change_id, vertex[3]>> ELSE pos
        after(r) == [ok |-> r.ok, g |-> r.g, pos |-> IF r.ok THEN next_pos ELSE pos]
        with(del) ==
          IF ~neighbours_found(G, del) THEN [ok |-> FALSE, g |-> G, pos |-> pos]
          ELSE after(perform_del(G, del, 1, vertex))
    IN with(iter_adj_all(G, vertex))

RECURSIVE unapply_newvertex_from(_, _, _, _)
unapply_newvertex_from(G, change_id, new_vertex_, pos) ==
    LET after(t) ==
          IF ~t.ok THEN Fail(t.g)
          ELSE unapply_newvertex_from(t.g, change_id, new_vertex_, t.pos)
        at(vertex) ==
          IF vertex = NoVertex THEN Ok(G)
          ELSE after(unapply_newvertex_turn(G, change_id, new_vertex_, pos, vertex))
    IN at(find_block(G, pos))

\* unapply_newvertex as it would be if its loop never ran.
unapply_newvertex_kept(G, change_id, new_vertex_) == Ok(G)

unapply_newvertex(G, change_id, new_vertex_) ==
    unapply_newvertex_from(G, change_id, new_vertex_, <<change_id, new_vertex_.start>>)

\* ChangeStore::change_deletes_position: the introducers of the edges that
\* change s replaced at position pos, in the order of its atoms.
RECURSIVE edges_deleting(_, _, _)
edges_deleting(edges, pos, i) ==
    IF i > Len(edges) THEN <<>>
    ELSE (IF /\ edges[i].to[1] = pos[1] /\ edges[i].to[2] <= pos[2]
             /\ pos[2] < edges[i].to[3] /\ edges[i].introduced_by # "None"
          THEN <<edges[i].introduced_by>> ELSE <<>>)
         \o edges_deleting(edges, pos, i + 1)

RECURSIVE atoms_deleting(_, _, _)
atoms_deleting(atoms, pos, i) ==
    IF i > Len(atoms) THEN <<>>
    ELSE (IF atoms[i].type = "EdgeMap" THEN edges_deleting(atoms[i].edges, pos, 1) ELSE <<>>)
         \o atoms_deleting(atoms, pos, i + 1)

change_deletes_position(P, s, pos) ==
    atoms_deleting(Change(GetOne(P.external, s)).changes, pos, 1)

\* Lines 498-507: the changes among next[i..] that internal knows are
\* pushed in order, unless one of them is introduced_by.
RECURSIVE push_known(_, _, _, _, _)
push_known(P, next, i, introduced_by, stack) ==
    IF i > Len(next) THEN [found |-> FALSE, stack |-> stack]
    ELSE IF next[i] = introduced_by THEN [found |-> TRUE, stack |-> stack]
    ELSE push_known(P, next, i + 1, introduced_by,
                    IF Has(P.internal, next[i])
                    THEN Append(stack, GetOne(P.internal, next[i])) ELSE stack)

\* edge_is_in_channel as it would be if it looked no further than the
\* changes it is given.
edge_is_in_channel_unwalked(P, pos, introduced_by, stack, visited) ==
    \A i \in DOMAIN stack :
       \A j \in DOMAIN change_deletes_position(P, stack[i], pos) :
          change_deletes_position(P, stack[i], pos)[j] # introduced_by

RECURSIVE edge_is_in_channel(_, _, _, _, _)
edge_is_in_channel(P, pos, introduced_by, stack, visited) ==
    LET s == stack[Len(stack)]
        rest == SubSeq(stack, 1, Len(stack) - 1)
        walk(r) ==
          IF r.found THEN FALSE
          ELSE edge_is_in_channel(P, pos, introduced_by, r.stack, visited \cup {s})
    IN IF stack = <<>> THEN TRUE
       ELSE IF s \in visited THEN edge_is_in_channel(P, pos, introduced_by, rest, visited)
       ELSE walk(push_known(P, change_deletes_position(P, s, pos), 1, introduced_by, rest))

\* must_reintroduce as it would be if no edge were ever put back.
must_reintroduce_never(P, G, a, b, intro, intro_id, current_id) == FALSE

must_reintroduce(P, G, a, b, intro, intro_id, current_id) ==
    LET b_ext == <<IF Has(P.external, b[1]) THEN GetOne(P.external, b[1]) ELSE "ROOT", b[2]>>
        sibling(e) == /\ PARENT \notin e.flag
                      /\ e.dest = start_pos(b)
                      /\ e.by # ROOT
                      /\ e.by # current_id
        decide(sib) ==
          IF sib # <<>> /\ (a[1] = intro_id \/ b[1] = intro_id) THEN FALSE
          ELSE edge_is_in_channel(P, b_ext, intro, [i \in DOMAIN sib |-> sib[i].by], {})
    IN decide(SelectSeq(iter_adj_all(G, a), sibling))

\* Lines 389-405: the pairs of consecutive vertices of one edge of the atom
\* that must be re-introduced.
RECURSIVE reintro_of_edge(_, _, _, _, _, _)
reintro_of_edge(P, G, change_id, n, source, target) ==
    LET intro_ext == IF n.introduced_by = "None" THEN GetOne(P.external, change_id)
                     ELSE n.introduced_by
        add(here, r) == [ok |-> r.ok, set |-> here \cup r.set]
        go(here, next) ==
          IF target[3] >= n.to[3] THEN [ok |-> TRUE, set |-> here]
          ELSE IF next = NoVertex THEN [ok |-> FALSE, set |-> here]
          ELSE add(here, reintro_of_edge(P, G, change_id, n, target, next))
    IN go(IF must_reintroduce(P, G, source, target, intro_ext,
                              internal(P, n.introduced_by, change_id), change_id)
          THEN {<<source, target>>} ELSE {},
          find_block(G, end_pos(target)))

reintro_of(P, G, change_id, n) ==
    LET from(source, target) ==
          IF source = NoVertex \/ target = NoVertex THEN [ok |-> FALSE, set |-> {}]
          ELSE reintro_of_edge(P, G, change_id, n, source, target)
    IN from(find_block_end(G, internal_pos(P, n.from, change_id)),
            find_block(G, <<internal(P, n.to[1], change_id), n.to[2]>>))

reintro_set(P, G, change_id, newedges) ==
    LET merge(R) == [ok |-> \A r \in R : r.ok, set |-> UNION {r.set : r \in R}]
    IN merge({reintro_of(P, G, change_id, newedges.edges[i]) : i \in DOMAIN newedges.edges})

reverse(edge, introduced_by) ==
    [from |-> edge.from, to |-> edge.to, previous |-> edge.flag,
     flag |-> edge.previous, introduced_by |-> introduced_by]

\* ChangeStore::knows: the change lists h among its dependencies.
knows(a, h) == h \in Change(a).dependencies

\* The oracle of lines 422-439 as it would be without its first test.
knows_oracle_unaware(P, change_id, edge, h) ==
    IF DELETED \in edge.previous
    THEN knows(IF edge.introduced_by = "None" THEN GetOne(P.external, change_id)
               ELSE edge.introduced_by, h)
    ELSE TRUE

\* Lines 422-439: what the closure handed to put_newedge answers for h.
knows_oracle(P, change_id, edge, h) ==
    IF h = GetOne(P.external, change_id) THEN TRUE
    ELSE IF DELETED \in edge.previous
    THEN knows(IF edge.introduced_by = "None" THEN GetOne(P.external, change_id)
               ELSE edge.introduced_by, h)
    ELSE TRUE

\* The second loop of unapply_edges as it would be if the edges were put
\* as the change has them, not reversed.
RECURSIVE unapply_edges_put_unreversed(_, _, _, _, _, _)
unapply_edges_put_unreversed(P, G, change_id, newedges, reintro, i) ==
    LET after(r) ==
          IF ~r.ok THEN r
          ELSE unapply_edges_put_unreversed(P, r.g, change_id, newedges, reintro, i + 1)
    IN IF i > Len(newedges.edges) THEN Ok(G)
       ELSE after(put_newedge(P, G,
                     internal(P, newedges.edges[i].introduced_by, change_id),
                     newedges.edges[i], FALSE, reintro))

\* Lines 409-440: every edge of the atom is put back reversed.
RECURSIVE unapply_edges_put(_, _, _, _, _, _)
unapply_edges_put(P, G, change_id, newedges, reintro, i) ==
    LET after(r) ==
          IF ~r.ok THEN r
          ELSE unapply_edges_put(P, r.g, change_id, newedges, reintro, i + 1)
    IN IF i > Len(newedges.edges) THEN Ok(G)
       ELSE after(put_newedge(P, G,
                     internal(P, newedges.edges[i].introduced_by, change_id),
                     reverse(newedges.edges[i], GetOne(P.external, change_id)),
                     FALSE, reintro))

unapply_edges(P, G, change_id, newedges) ==
    LET with(reintro) ==
          IF ~reintro.ok THEN Fail(G)
          ELSE unapply_edges_put(P, G, change_id, newedges, reintro.set, 1)
    IN with(reintro_set(P, G, change_id, newedges))

\* The queued (vertex, entry) pairs go, each with its dual; a neighbour that
\* is not found is an error (remove_zombies) or is passed over (pass D).
RECURSIVE del_queued(_, _, _, _)
del_queued(G, del_edges, i, strict) ==
    LET v == del_edges[i][1]
        e == del_edges[i][2]
        del(other) ==
          IF other = NoVertex
          THEN (IF strict THEN Fail(G) ELSE del_queued(G, del_edges, i + 1, strict))
          ELSE del_queued(IF PARENT \in e.flag
                          THEN del_graph_with_rev(G, e.flag \ {PARENT}, other, v, e.by)
                          ELSE del_graph_with_rev(G, e.flag, v, other, e.by),
                          del_edges, i + 1, strict)
    IN IF i > Len(del_edges) THEN Ok(G)
       ELSE del(IF PARENT \in e.flag THEN find_block_end(G, e.dest)
                ELSE find_block(G, e.dest))

\* One entry of a vertex of collect_zombies (lines 555-574).
zombie_edge_any(G, change_id, v, e, st) ==
    LET to(x) ==
          IF x = NoVertex THEN [st EXCEPT !.ok = FALSE]
          ELSE [st EXCEPT !.stack = Append(@, x), !.del_edges = Append(@, <<v, e>>)]
    IN IF ~(e.by = change_id \/ (e.flag \cap {BLOCK, PARENT}) = {PARENT}) THEN st
       ELSE to(IF PARENT \in e.flag THEN find_block_end(G, e.dest)
               ELSE find_block(G, e.dest))

zombie_edge(G, change_id, v, e, st) ==
    LET to(x) ==
          IF x = NoVertex THEN [st EXCEPT !.ok = FALSE]
          ELSE [st EXCEPT !.stack = Append(@, x),
                          !.del_edges = IF e.by = change_id
                                        THEN Append(@, <<v, e>>) ELSE @]
    IN IF ~(e.by = change_id \/ (e.flag \cap {BLOCK, PARENT}) = {PARENT}) THEN st
       ELSE to(IF PARENT \in e.flag THEN find_block_end(G, e.dest)
               ELSE find_block(G, e.dest))

RECURSIVE zombie_edges(_, _, _, _, _, _)
zombie_edges(G, change_id, v, es, i, st) ==
    IF i > Len(es) \/ ~st.ok THEN st
    ELSE zombie_edges(G, change_id, v, es, i + 1, zombie_edge(G, change_id, v, es[i], st))

RECURSIVE collect_zombies_loop(_, _, _)
collect_zombies_loop(G, change_id, st) ==
    LET v == st.stack[Len(st.stack)]
        pop(st0) ==
          IF v \in st.parents THEN collect_zombies_loop(G, change_id, st0)
          ELSE collect_zombies_loop(G, change_id,
                 zombie_edges(G, change_id, v, iter_adj_all(G, v), 1,
                              [st0 EXCEPT !.parents = @ \cup {v}]))
    IN IF st.stack = <<>> \/ ~st.ok THEN st
       ELSE pop([st EXCEPT !.stack = SubSeq(@, 1, Len(@) - 1)])

collect_zombies(G, change_id, to) ==
    LET from(v) ==
          IF v = NoVertex
          THEN [ok |-> FALSE, stack |-> <<>>, parents |-> {}, del_edges |-> <<>>]
          ELSE collect_zombies_loop(G, change_id,
                 [ok |-> TRUE, stack |-> <<v>>, parents |-> {}, del_edges |-> <<>>])
    IN from(find_block(G, to))

RECURSIVE remove_zombies_from(_, _, _, _, _)
remove_zombies_from(P, G, change_id, newedges, i) ==
    LET after(r) ==
          IF ~r.ok THEN r ELSE remove_zombies_from(P, r.g, change_id, newedges, i + 1)
        with(ws) ==
          IF ~ws.ok THEN Fail(G) ELSE after(del_queued(G, ws.del_edges, 1, TRUE))
        at(to) == IF to[1] = NoId THEN Fail(G) ELSE with(collect_zombies(G, change_id, to))
    IN IF i > Len(newedges.edges) THEN Ok(G)
       ELSE at(<<internal(P, newedges.edges[i].to[1], change_id), newedges.edges[i].to[2]>>)

remove_zombies(P, G, change_id, newedges) ==
    remove_zombies_from(P, G, change_id, newedges, 1)

\* Lines 674-679: an edge to a parent that is neither pseudo nor deleted
\* takes back what the vertex has queued and pushed.
zombies_up_truncate(st, v, del_len, stack_len) ==
    [st EXCEPT !.del_edges = SubSeq(@, 1, del_len),
               !.stack = SubSeq(@, 1, stack_len),
               !.pushed = {p \in @ : p[1] # v}]

\* Lines 680-685: the parent x of v along e is pushed, a pseudo-edge queued.
zombies_up_push_all(st, v, e, x) ==
    [st EXCEPT !.stack = IF x # NoVertex THEN Append(@, x) ELSE @,
               !.pushed = IF x # NoVertex THEN @ \cup {<<v, x>>} ELSE @,
               !.del_edges = Append(@, <<v, e>>)]

zombies_up_push(st, v, e, x) ==
    [st EXCEPT !.stack = IF x # NoVertex THEN Append(@, x) ELSE @,
               !.pushed = IF x # NoVertex THEN @ \cup {<<v, x>>} ELSE @,
               !.del_edges = IF PSEUDO \in e.flag THEN Append(@, <<v, e>>) ELSE @]

(* Phase 2 of collect_zombies_pseudo (collect_zombies_up).  Besides the
   workspace, the state keeps a history of the traversal: `pushed` holds the
   pairs <<v, x>> of a parent x that is on the stack on account of v. *)
RECURSIVE zombies_up_edges(_, _, _, _, _, _, _)
zombies_up_edges(G, v, es, i, st, del_len, stack_len) ==
    LET e == es[i]
        push(x) ==
          zombies_up_edges(G, v, es, i + 1, zombies_up_push(st, v, e, x),
                           del_len, stack_len)
    IN IF i > Len(es) \/ st.panic THEN st
       ELSE IF PARENT \notin e.flag
       THEN zombies_up_edges(G, v, es, i + 1, st, del_len, stack_len)
       ELSE IF FOLDER \notin e.flag THEN [st EXCEPT !.panic = TRUE]
       ELSE IF e.flag \cap {PSEUDO, DELETED} = {}
       THEN zombies_up_truncate(st, v, del_len, stack_len)
       ELSE push(find_block_end(G, e.dest))

RECURSIVE zombies_up_loop(_, _)
zombies_up_loop(G, st) ==
    LET v == st.stack[Len(st.stack)]
        pop(st0) ==
          IF v \in st.parents THEN zombies_up_loop(G, st0)
          ELSE zombies_up_loop(G,
                 zombies_up_edges(G, v, iter_adj_all(G, v), 1,
                                  [st0 EXCEPT !.parents = @ \cup {v}],
                                  Len(st0.del_edges), Len(st0.stack)))
    IN IF st.stack = <<>> \/ st.panic
       THEN [st EXCEPT !.stack = <<>>, !.parents = {}, !.up = st.parents]
       ELSE pop([st EXCEPT !.stack = SubSeq(@, 1, Len(@) - 1)])

collect_zombies_up(G, to, st) ==
    LET from(v) == IF v # NoVertex THEN [st EXCEPT !.stack = Append(@, v)] ELSE st
    IN zombies_up_loop(G, from(find_block(G, to)))

\* Lines 604-608: the workspace as phase 2 finds it, entered at the
\* finishing visit of v.
zombies_up_enter(st, v) ==
    [st EXCEPT !.parents = {},
               !.ups = Append(@, [from |-> v, parents |-> {},
                                  del_len |-> Len(st.del_edges)])]

(* Phase 1 of collect_zombies_pseudo.  The history kept with the workspace:
   `first` the vertices that had a first visit, `finished` those that had a
   finishing visit, `ups` one record for each time phase 2 was entered. *)
iter_alive_children(G, v) == iter_adjacent(G, v, {}, {BLOCK, PSEUDO, FOLDER})

\* Lines 634-638: every entry of the stack that is on the path is alive.
mark_alive(zs) ==
    [j \in DOMAIN zs |-> IF zs[j][3] THEN <<zs[j][1], TRUE, TRUE>> ELSE zs[j]]

RECURSIVE zombie_children(_, _, _, _, _, _)
zombie_children(G, v, es, i, is_first, st) ==
    LET e == es[i]
        child(x) ==
          IF x = NoVertex THEN [st EXCEPT !.ok = FALSE]
          ELSE IF is_alive(G, x)
          THEN zombie_children(G, v, es, i + 1, is_first,
                               [st EXCEPT !.zombies_stack = mark_alive(@)])
          ELSE zombie_children(G, v, es, i + 1, FALSE,
                 [st EXCEPT !.zombies_stack =
                    (IF is_first THEN Append(@, <<v, FALSE, TRUE>>) ELSE @)
                    \o <<<<x, FALSE, FALSE>>>>])
    IN IF i > Len(es) \/ ~st.ok THEN st
       ELSE IF e.flag \cap {PARENT, DELETED} # {}
       THEN zombie_children(G, v, es, i + 1, is_first, st)
       ELSE child(find_block(G, e.dest))

pseudo_entries(G, v) ==
    LET pseudo(e) == PSEUDO \in e.flag
        pairs(es) == [i \in DOMAIN es |-> <<v, es[i]>>]
    IN pairs(SelectSeq(iter_adj_all(G, v), pseudo))

\* Lines 648-649: the workspace as collect_zombies_pseudo leaves it.
zombies_reset(st) == [st EXCEPT !.zombies_stack = <<>>, !.parents = {}]

RECURSIVE zombies_pseudo_loop(_, _, _)
zombies_pseudo_loop(G, to, st) ==
    LET top == st.zombies_stack[Len(st.zombies_stack)]
        finish(st0, dead) ==
          IF top[2] THEN zombies_pseudo_loop(G, to, st0)
          ELSE IF st0.zombies_stack = <<>>
          THEN zombies_pseudo_loop(G, to,
                 collect_zombies_up(G, to, zombies_up_enter(dead, top[1])))
          ELSE zombies_pseudo_loop(G, to, dead)
        pop(st0) ==
          IF top[3]
          THEN finish([st0 EXCEPT !.finished = @ \cup {top[1]}],
                      [st0 EXCEPT !.finished = @ \cup {top[1]},
                                  !.del_edges = @ \o pseudo_entries(G, top[1])])
          ELSE IF top[1] \in st.parents THEN zombies_pseudo_loop(G, to, st0)
          ELSE zombies_pseudo_loop(G, to,
                 zombie_children(G, top[1], iter_alive_children(G, top[1]), 1, TRUE,
                                 [st0 EXCEPT !.parents = @ \cup {top[1]},
                                             !.first = @ \cup {top[1]}]))
    IN IF st.zombies_stack = <<>> \/ ~st.ok \/ st.panic
       THEN zombies_reset(st)
       ELSE pop([st EXCEPT !.zombies_stack = SubSeq(@, 1, Len(@) - 1)])

\* Workspace::default (lines 275-286), with the history of the traversals.
Workspace ==
    [ok |-> TRUE, panic |-> FALSE, parents |-> {}, stack |-> <<>>,
     del_edges |-> <<>>, first |-> {}, finished |-> {}, ups |-> <<>>,
     up |-> {}, pushed |-> {}, zombies_stack |-> <<>>]

\* collect_zombies_pseudo on the workspace as the caller hands it over.
collect_zombies_pseudo_in(G, to, ws) ==
    LET from(v) ==
          zombies_pseudo_loop(G, to,
            [ws EXCEPT !.zombies_stack =
                         IF v # NoVertex THEN Append(@, <<v, FALSE, FALSE>>) ELSE @])
    IN from(find_block(G, to))

collect_zombies_pseudo(G, to) == collect_zombies_pseudo_in(G, to, Workspace)

\* apply::repair_zombies, apply::clean_obsolete_pseudo_edges and
\* apply::repair_cyclic_paths act on the pseudo-edges that patch application
\* put around deleted vertices with alive descendants.  No change of the
\* store deletes a vertex that has children, so application puts none.
repair_zombies(G, inode) == G
clean_obsolete_pseudo_edges(G, change_id) ==
    G \ {e \in G : PSEUDO \in e.flag /\ e.by = change_id}
repair_cyclic_paths(G) == G

\* The calls that one atom of pass A makes (lines 175-204), given the inodes
\* seen in NewVertex atoms so far.
structural_calls_every(a, i, clean_inodes) ==
    IF a.type = "EdgeMap" THEN <<[fn |-> "unapply_edges", inode |-> a.inode, atom |-> i]>>
    ELSE <<[fn |-> "remove_forward_edges", inode |-> a.inode, atom |-> i],
           [fn |-> "unapply_newvertex", inode |-> a.inode, atom |-> i]>>

structural_calls(a, i, clean_inodes) ==
    IF a.type = "EdgeMap" THEN <<[fn |-> "unapply_edges", inode |-> a.inode, atom |-> i]>>
    ELSE (IF a.inode \notin clean_inodes
          THEN <<[fn |-> "remove_forward_edges", inode |-> a.inode, atom |-> i]>>
          ELSE <<>>)
         \o <<[fn |-> "unapply_newvertex", inode |-> a.inode, atom |-> i]>>

\* One atom of pass A (lines 175-204).
unapply_atom(P, G, change_id, a, first) ==
    LET at(pos) ==
          IF first /\ pos[1] = NoId THEN Fail(G)
          ELSE unapply_newvertex(IF first THEN remove_forward_edges(G, pos) ELSE G,
                                 change_id, a)
    IN IF a.type = "EdgeMap" THEN unapply_edges(P, G, change_id, a)
       ELSE at(internal_pos(P, a.inode, change_id))

\* Pass A of unapply (lines 173-205) from atom i of the reversed list.
RECURSIVE unapply_structural(_, _, _, _, _, _, _)
unapply_structural(P, G, change_id, atoms, i, clean_inodes, touched_inodes) ==
    LET a == atoms[i]
        after(r, touched) ==
          IF ~r.ok THEN [ok |-> FALSE, g |-> r.g, touched |-> touched]
          ELSE unapply_structural(P, r.g, change_id, atoms, i + 1,
                  IF a.type = "NewVertex" THEN clean_inodes \cup {a.inode}
                  ELSE clean_inodes,
                  touched)
    IN IF i > Len(atoms) THEN [ok |-> TRUE, g |-> G, touched |-> touched_inodes]
       ELSE after(unapply_atom(P, G, change_id, a, a.inode \notin clean_inodes),
                  IF \E j \in DOMAIN touched_inodes : touched_inodes[j] = a.inode
                  THEN touched_inodes ELSE Append(touched_inodes, a.inode))

\* Pass B (lines 207-214).
RECURSIVE unapply_zombies(_, _, _, _, _)
unapply_zombies(P, G, change_id, atoms, i) ==
    LET after(r) ==
          IF ~r.ok THEN r ELSE unapply_zombies(P, r.g, change_id, atoms, i + 1)
    IN IF i > Len(atoms) THEN Ok(G)
       ELSE IF atoms[i].type = "EdgeMap"
       THEN after(remove_zombies(P, G, change_id, atoms[i]))
       ELSE unapply_zombies(P, G, change_id, atoms, i + 1)

\* Pass D (lines 240-262).
RECURSIVE unapply_pseudo_in(_, _, _, _, _, _)
unapply_pseudo_in(P, G, change_id, touched, i, ws) ==
    LET entered(r) == [r EXCEPT !.entered = <<Len(ws.del_edges)>> \o @]
        at(inode) ==
          LET after(r, drained) ==
                unapply_pseudo_in(P, repair_zombies(r.g, inode), change_id, touched,
                                  i + 1, drained)
              with(ws1) ==
                IF ~ws1.ok \/ ws1.panic
                THEN [ok |-> FALSE, g |-> G, ws |-> ws1, entered |-> <<>>]
                ELSE after(del_queued(G, ws1.del_edges, 1, FALSE),
                           [ws1 EXCEPT !.del_edges = <<>>])
          IN IF inode[1] = NoId
             THEN unapply_pseudo_in(P, G, change_id, touched, i + 1, ws)
             ELSE entered(with(collect_zombies_pseudo_in(G, inode, ws)))
    IN IF i > Len(touched) THEN [ok |-> TRUE, g |-> G, ws |-> ws, entered |-> <<>>]
       ELSE at(internal_pos(P, touched[i], change_id))

unapply_pseudo(P, G, change_id, touched, i) ==
    LET k(r) == [ok |-> r.ok, g |-> r.g]
    IN k(unapply_pseudo_in(P, G, change_id, touched, i, Workspace))

\* unapply on the channel's graph.  Pass C (lines 216-236) reconciles the
\* working tree of FOLDER atoms and leaves the tables of the pristine alone.
unapply(P, ch, change_id, change) ==
    LET done(ok, G) == [ok |-> ok, txn |-> [P EXCEPT !.graph[ch] = G]]
        passD(d) ==
          IF ~d.ok THEN done(FALSE, d.g)
          ELSE done(TRUE, repair_cyclic_paths(clean_obsolete_pseudo_edges(d.g, change_id)))
        passB(b, touched) ==
          IF ~b.ok THEN done(FALSE, b.g)
          ELSE passD(unapply_pseudo(P, b.g, change_id, touched, 1))
        passA(a) ==
          IF ~a.ok THEN done(FALSE, a.g)
          ELSE passB(unapply_zombies(P, a.g, change_id, rev_atoms(change), 1), a.touched)
    IN passA(unapply_structural(P, P.graph[ch], change_id, rev_atoms(change), 1, {}, <<>>))

\* The state Merkle after the changes of the channel up to timestamp t,
\* the change `without` left out.
state_upto(P, ch, t, without) ==
    {GetOne(P.external, x[1]) : x \in {y \in P.changes[ch] : y[2] <= t /\ y[1] # without}}

\* del_changes: the change leaves changes and revchanges, and the states
\* of the later changes are computed again.
del_changes(P, ch, change_id, t) ==
    LET put(kept) ==
          [P EXCEPT !.changes[ch] = @ \ {<<change_id, t>>},
                    !.revchanges[ch] = kept,
                    !.states[ch] = {<<x[2][2], x[1]>> : x \in kept}]
    IN put({x \in P.revchanges[ch] : x[1] < t}
           \cup {<<x[1], <<x[2][1], state_upto(P, ch, x[1], change_id)>>>> :
                   x \in {y \in P.revchanges[ch] : y[1] > t}})

del_tags(P, ch, t) == [P EXCEPT !.tags[ch] = Del(@, t)]

\* del_channel_changes as it would be without the loop over revdep
\* (lines 116-129).
del_channel_changes_unverified(P, ch, change_id) ==
    LET out(err, Q, ts, untagged) ==
          [err |-> err, dependent |-> NoId, txn |-> Q, ts |-> ts, untagged |-> untagged]
        del(timestamp) ==
          out("none", del_tags(del_changes(P, ch, change_id, timestamp), ch, timestamp),
              timestamp, Has(P.tags[ch], timestamp))
    IN IF ~Has(P.changes[ch], change_id) THEN out("ChangeNotInChannel", P, NoId, FALSE)
       ELSE del(GetOne(P.changes[ch], change_id))

\* del_channel_changes as it would be without del_tags (lines 133-134).
del_channel_changes_keeping_tags(P, ch, change_id) ==
    LET out(err, d, Q, ts, untagged) ==
          [err |-> err, dependent |-> d, txn |-> Q, ts |-> ts, untagged |-> untagged]
        del(timestamp) ==
          out("none", NoId, del_changes(P, ch, change_id, timestamp),
              timestamp, Has(P.tags[ch], timestamp))
        check(dependents) ==
          IF dependents # {}
          THEN out("ChangeIsDependedUpon", Min(dependents), P, NoId, FALSE)
          ELSE del(GetOne(P.changes[ch], change_id))
    IN IF ~Has(P.changes[ch], change_id)
       THEN out("ChangeNotInChannel", NoId, P, NoId, FALSE)
       ELSE check({d \in Get(P.revdep, change_id) : Has(P.changes[ch], d)})

\* del_channel_changes as it would be if it took the channel's latest
\* timestamp instead of the change's (line 110).
del_channel_changes_latest(P, ch, change_id) ==
    LET out(err, d, Q, ts, untagged) ==
          [err |-> err, dependent |-> d, txn |-> Q, ts |-> ts, untagged |-> untagged]
        del(timestamp) ==
          out("none", NoId,
              del_tags(del_changes(P, ch, change_id, timestamp), ch, timestamp),
              timestamp, Has(P.tags[ch], timestamp))
        check(dependents) ==
          IF dependents # {}
          THEN out("ChangeIsDependedUpon", Min(dependents), P, NoId, FALSE)
          ELSE del(Max(Keys(P.revchanges[ch])))
    IN IF ~Has(P.changes[ch], change_id)
       THEN out("ChangeNotInChannel", NoId, P, NoId, FALSE)
       ELSE check({d \in Get(P.revdep, change_id) : Has(P.changes[ch], d)})

\* del_channel_changes as it would be if every dependent counted, whether
\* in the channel or not (line 121).
del_channel_changes_any_dependent(P, ch, change_id) ==
    LET ts == GetOne(P.changes[ch], change_id)
    IN IF ~Has(P.changes[ch], change_id)
       THEN [err |-> "ChangeNotInChannel", dependent |-> NoId, txn |-> P,
             ts |-> NoId, untagged |-> FALSE]
       ELSE IF Has(P.revdep, change_id)
       THEN [err |-> "ChangeIsDependedUpon", dependent |-> Min(Get(P.revdep, change_id)),
             txn |-> P, ts |-> NoId, untagged |-> FALSE]
       ELSE [err |-> "none", dependent |-> NoId,
             txn |-> del_tags(del_changes(P, ch, change_id, ts), ch, ts),
             ts |-> ts, untagged |-> Has(P.tags[ch], ts)]

\* del_channel_changes as it would be without the scan of revdep
\* (lines 116-129).
del_channel_changes_unscanned(P, ch, change_id) ==
    LET ts == GetOne(P.changes[ch], change_id)
    IN IF ~Has(P.changes[ch], change_id)
       THEN [err |-> "ChangeNotInChannel", dependent |-> NoId, txn |-> P,
             ts |-> NoId, untagged |-> FALSE]
       ELSE [err |-> "none", dependent |-> NoId,
             txn |-> del_tags(del_changes(P, ch, change_id, ts), ch, ts),
             ts |-> ts, untagged |-> Has(P.tags[ch], ts)]

del_channel_changes(P, ch, change_id) ==
    LET out(err, d, Q, ts, untagged) ==
          [err |-> err, dependent |-> d, txn |-> Q, ts |-> ts, untagged |-> untagged]
        del(timestamp) ==
          out("none", NoId,
              del_tags(del_changes(P, ch, change_id, timestamp), ch, timestamp),
              timestamp, Has(P.tags[ch], timestamp))
        check(dependents) ==
          IF dependents # {}
          THEN out("ChangeIsDependedUpon", Min(dependents), P, NoId, FALSE)
          ELSE del(GetOne(P.changes[ch], change_id))
    IN IF ~Has(P.changes[ch], change_id)
       THEN out("ChangeNotInChannel", NoId, P, NoId, FALSE)
       ELSE check({d \in Get(P.revdep, change_id) : Has(P.changes[ch], d)})

\* unused_in_other_channels as it would be without the comparison of names
\* (lines 147-149).
unused_in_any_channel(P, ch, change_id) ==
    \A br \in Chans : ~Has(P.changes[br], change_id)

unused_in_other_channels(P, ch, change_id) ==
    \A br \in Chans : br = ch \/ ~Has(P.changes[br], change_id)

\* The purge as it would be without the loop over the dependencies
\* (lines 92-95).
purge_keeping_revdep(P, change_id, hash, change) ==
    [P EXCEPT !.dep = Del(@, change_id),
              !.external = Del(@, change_id),
              !.internal = Del(@, hash)]

\* The purge as it would be if del_revdep were given no value (line 94):
\* every dependent of each dependency goes.
purge_dropping_dependents(P, change_id, hash, change) ==
    LET P1 == [P EXCEPT !.dep = Del(@, change_id),
                        !.external = Del(@, change_id),
                        !.internal = Del(@, hash)]
    IN [P1 EXCEPT !.revdep = {x \in @ : \A d \in change.dependencies :
                                          x[1] # GetOne(P1.internal, d)}]

\* The purge of the cross-channel tables (lines 88-95).
purge(P, change_id, hash, change) ==
    LET P1 == [P EXCEPT !.dep = Del(@, change_id),
                        !.external = Del(@, change_id),
                        !.internal = Del(@, hash)]
    IN [P1 EXCEPT !.revdep = @ \ {<<GetOne(P1.internal, d), change_id>> :
                                    d \in change.dependencies}]

\* What a call of unrecord leaves: its result, the identifiers its error
\* carries, the pristine, the timestamp the change had, whether a tag stood
\* at it, and whether the change was fetched from the store (line 81).
Result(res, id, d, P, ts, untagged, consulted) ==
    [res |-> res, change_id |-> id, dependent |-> d, txn |-> P, ts |-> ts,
     untagged |-> untagged, consulted |-> consulted]

\* The end of unrecord as it would be if the purge did not depend on `unused`.
unrecord_end_purging(unused, change_id, hash, change, r1, r2) ==
    LET out(res, Q) == Result(res, change_id, r1.dependent, Q, r1.ts, r1.untagged, TRUE)
    IN IF ~r2.ok THEN out("Block", r2.txn)
       ELSE out(IF unused THEN "Ok(false)" ELSE "Ok(true)",
                purge_keeping_revdep(r2.txn, change_id, hash, change))

\* Lines 87-99: the purge, or not, once unapply is through.
unrecord_end(unused, change_id, hash, change, r1, r2) ==
    LET out(res, Q) == Result(res, change_id, r1.dependent, Q, r1.ts, r1.untagged, TRUE)
    IN IF ~r2.ok THEN out("Block", r2.txn)
       ELSE IF ~unused THEN out("Ok(true)", r2.txn)
       ELSE IF Has(r2.txn.revdep, change_id)
               \/ \E d \in change.dependencies : ~Has(r2.txn.internal, d)
       THEN out("panic", r2.txn)
       ELSE out("Ok(false)", purge(r2.txn, change_id, hash, change))

\* unrecord as it would be if the error of del_channel_changes were dropped.
unrecord_known_unchecked(P, ch, hash, change_id) ==
    LET after(unused, r1) ==
          unrecord_end(unused, change_id, hash, Change(hash), r1,
                       unapply(r1.txn, ch, change_id, Change(hash)))
    IN after(unused_in_other_channels(P, ch, change_id),
             del_channel_changes(P, ch, change_id))

\* unrecord as it would be if the change left the changes of every channel.
unrecord_known_everywhere(P, ch, hash, change_id) ==
    LET everywhere(r1) ==
          [r1 EXCEPT !.txn.changes =
                       [c \in Chans |-> {x \in r1.txn.changes[c] : x[1] # change_id}]]
        after(unused, r1) ==
          IF r1.err # "none"
          THEN Result(r1.err, change_id, r1.dependent, r1.txn, r1.ts, r1.untagged, FALSE)
          ELSE unrecord_end(unused, change_id, hash, Change(hash), r1,
                            unapply(r1.txn, ch, change_id, Change(hash)))
    IN after(unused_in_other_channels(P, ch, change_id),
             everywhere(del_channel_changes(P, ch, change_id)))

\* Lines 76-99: the hash is known as change_id.
unrecord_known(P, ch, hash, change_id) ==
    LET after(unused, r1) ==
          IF r1.err # "none"
          THEN Result(r1.err, change_id, r1.dependent, r1.txn, r1.ts, r1.untagged, FALSE)
          ELSE unrecord_end(unused, change_id, hash, Change(hash), r1,
                            unapply(r1.txn, ch, change_id, Change(hash)))
    IN after(unused_in_other_channels(P, ch, change_id),
             del_channel_changes(P, ch, change_id))

\* unrecord as it would be if the change were fetched before the lookup.
unrecord_fetching_first(P, ch, hash) ==
    IF ~Has(P.internal, hash) THEN Result("Ok(false)", NoId, NoId, P, NoId, FALSE, TRUE)
    ELSE unrecord_known(P, ch, hash, GetOne(P.internal, hash))

unrecord(P, ch, hash) ==
    IF ~Has(P.internal, hash) THEN Result("Ok(false)", NoId, NoId, P, NoId, FALSE, FALSE)
    ELSE unrecord_known(P, ch, hash, GetOne(P.internal, hash))

(* ------------------------------------------------------------ actions --- *)

Install(P) ==
    /\ graph' = P.graph
    /\ changes' = P.changes
    /\ revchanges' = P.revchanges
    /\ states' = P.states
    /\ tags' = P.tags
    /\ apply_counter' = P.apply_counter
    /\ internal_' = P.internal
    /\ external' = P.external
    /\ dep' = P.dep
    /\ revdep' = P.revdep

\* What the last operation was and what it returned; ts and untagged are
\* what del_changes and del_tags were called with and returned.
Outcome(op, ch, h, res, id, d, ts, untagged, consulted) ==
    [op |-> op, ch |-> ch, hash |-> h, res |-> res, change_id |-> id,
     dependent |-> d, ts |-> ts, untagged |-> untagged, consulted |-> consulted]

\* The call of unrecord in progress, when it is followed statement by
\* statement: where it stands, its arguments and locals, the pristine as it
\* was when the write transaction began, whether the transaction is open,
\* and the steps gone through.  No call is in progress when pc is "idle".
Idle ==
    [pc |-> "idle", ch |-> "main", hash |-> "hp", change_id |-> NoId,
     unused |-> FALSE, touched |-> <<>>, begin |-> <<>>, txn |-> "none",
     res |-> "none", done |-> <<>>]

Init ==
    /\ call = Idle
    /\ graph = [c \in Chans |-> {}]
    /\ changes = [c \in Chans |-> {}]
    /\ revchanges = [c \in Chans |-> {}]
    /\ states = [c \in Chans |-> {}]
    /\ tags = [c \in Chans |-> {}]
    /\ apply_counter = [c \in Chans |-> 0]
    /\ internal_ = {}
    /\ external = {}
    /\ dep = {}
    /\ revdep = {}
    /\ last = Outcome("init", "main", "hp", "Ok", NoId, NoId, NoId, FALSE, FALSE)

\* apply_change: a change is applied to a channel that holds its
\* dependencies and not the change itself.
Apply(ch, h) ==
    /\ apply_counter["main"] + apply_counter["dev"] < MaxApply
    /\ ~(Has(internal_, h) /\ Has(changes[ch], GetOne(internal_, h)))
    /\ \A d \in Change(h).dependencies :
         Has(internal_, d) /\ Has(changes[ch], GetOne(internal_, d))
    /\ Install(apply_change(Txn, ch, h))
    /\ last' = Outcome("apply", ch, h, "Ok", make_changeid(Txn, h), NoId, NoId, FALSE, FALSE)
    /\ UNCHANGED call

\* A tag is put on the channel's latest state.
Tag(ch) ==
    /\ revchanges[ch] # {}
    /\ Cardinality(tags["main"]) + Cardinality(tags["dev"]) < MaxTags
    /\ ~Has(tags[ch], Max(Keys(revchanges[ch])))
    /\ Install(put_tags(Txn, ch))
    /\ last' = Outcome("tag", ch, "hp", "Ok", NoId, NoId, NoId, FALSE, FALSE)
    /\ UNCHANGED call

\* unrecord of any hash on any channel, whatever the channel holds.
Unrecord(ch, h) ==
    \E r \in {unrecord(Txn, ch, h)} :
       /\ Install(r.txn)
       /\ last' = Outcome("unrecord", ch, h, r.res, r.change_id, r.dependent,
                          r.ts, r.untagged, r.consulted)
       /\ UNCHANGED call

Next ==
    \/ \E ch \in Chans, h \in Hashes : Apply(ch, h)
    \/ \E ch \in Chans : Tag(ch)
    \/ \E ch \in Chans, h \in Hashes : Unrecord(ch, h)

Spec == Init /\ [][Next]_vars

\* A caller that empties channels: it unrecords, again and again, a change
\* of the channel that no change of the channel depends on, while changes
\* are still applied and tags put.
Drain(ch) ==
    \E h \in Hashes :
       /\ Has(internal_, h) /\ Has(changes[ch], GetOne(internal_, h))
       /\ del_channel_changes(Txn, ch, GetOne(internal_, h)).err # "ChangeIsDependedUpon"
       /\ Unrecord(ch, h)

NextDrain ==
    \/ \E ch \in Chans, h \in Hashes : Apply(ch, h)
    \/ \E ch \in Chans : Tag(ch)
    \/ \E ch \in Chans : Drain(ch)

\* The changes of a channel that del_channel_changes does not refuse.
Undepended(ch) ==
    {x \in changes[ch] : del_channel_changes(Txn, ch, x[1]).err = "none"}

\* The step of the caller's loop as the changes table shows it: one change
\* that is not depended upon leaves the channel.
Leaves(ch) ==
    \E x \in Undepended(ch) : changes' = [changes EXCEPT ![ch] = @ \ {x}]

\* The loop goes on for as long as the channel holds such a change.
FairDrain ==
    Init /\ [][NextDrain]_vars /\ \A ch \in Chans : WF_changes(Leaves(ch))

(* ----------------------------------------------------------- tags --- *)

VERSION == 7

\* An empty pristine, into which a tag is restored.
Fresh ==
    [graph |-> [c \in Chans |-> {}], changes |-> [c \in Chans |-> {}],
     revchanges |-> [c \in Chans |-> {}], states |-> [c \in Chans |-> {}],
     tags |-> [c \in Chans |-> {}], apply_counter |-> [c \in Chans |-> 0],
     internal |-> {}, external |-> {}, dep |-> {}, revdep |-> {}]

\* compress_channel: the tables of the pristine and of the channel are
\* copied pair by pair, in key order; with them go the channel's
\* apply_counter and its current state.
compress_channel(P, ch) ==
    [offsets |-> [internal |-> P.internal, external |-> P.external,
                  graph |-> P.graph[ch], changes |-> P.changes[ch],
                  revchanges |-> P.revchanges[ch], states |-> P.states[ch],
                  tags |-> P.tags[ch], apply_counter |-> P.apply_counter[ch]],
     state |-> current_state(P, ch)]

\* from_channel: the tag file and the state returned.
from_channel(P, ch, header) ==
    LET file(c) == [version |-> VERSION, header |-> header,
                    offsets |-> c.offsets, state |-> c.state]
    IN [file |-> file(compress_channel(P, ch)), state |-> compress_channel(P, ch).state]

\* OpenTagFile::open as it would be if the two fields of the error were
\* exchanged.
open_exchanged(file, expected) ==
    IF file.state = expected THEN [res |-> "Ok", header |-> file]
    ELSE [res |-> "WrongHash", expected |-> file.state, got |-> expected]

open(file, expected) ==
    IF file.state = expected THEN [res |-> "Ok", header |-> file]
    ELSE [res |-> "WrongHash", expected |-> expected, got |-> file.state]

read_short(file, expected) ==
    IF file.state = expected THEN [res |-> "Ok", header |-> file.header]
    ELSE [res |-> "WrongHash", expected |-> expected, got |-> file.state]

\* A change identifier of the file, through the file's external table, as
\* make_changeid gives it in the destination (NoId: the unwrap of a
\* missing entry).
remap(file, D, id) ==
    IF ~Has(file.offsets.external, id) THEN NoId
    ELSE make_changeid(D, GetOne(file.offsets.external, id))

remap_or_root(file, D, id) == IF id = ROOT THEN ROOT ELSE remap(file, D, id)

\* restore: every pair of the table is remapped, asserted equal to the
\* pair of the file (lines 369-370), and put.
restore(T, f) ==
    [panic |-> \E x \in T : f[x] # x, db |-> {f[x] : x \in T}]

\* restore_channel into the pristine D.
restore_channel(file, D) ==
    LET o == file.offsets
        graph_(x) == Entry(<<remap_or_root(file, D, x.k[1]), x.k[2], x.k[3]>>, x.flag,
                           <<remap_or_root(file, D, x.dest[1]), x.dest[2]>>,
                           remap_or_root(file, D, x.by))
        changes_(x) == <<remap(file, D, x[1]), x[2]>>
        revchanges_(x) == <<x[1], <<remap(file, D, x[2][1]), x[2][2]>>>>
        same(x) == x
        all(g, c, r, st, t) ==
          IF g.panic \/ c.panic \/ r.panic \/ st.panic \/ t.panic
          THEN [res |-> "panic"]
          ELSE [res |-> "Ok", graph |-> g.db, changes |-> c.db, revchanges |-> r.db,
                states |-> st.db, tags |-> t.db, apply_counter |-> o.apply_counter]
    IN all(restore(o.graph, [x \in o.graph |-> graph_(x)]),
           restore(o.changes, [x \in o.changes |-> changes_(x)]),
           restore(o.revchanges, [x \in o.revchanges |-> revchanges_(x)]),
           restore(o.states, [x \in o.states |-> same(x)]),
           restore(o.tags, [x \in o.tags |-> same(x)]))

Pristine == UNCHANGED <<graph, changes, revchanges, states, tags, apply_counter,
                        internal_, external, dep, revdep, call>>

\* A tag file is at hand.
Tagged == last.op \in {"from_channel", "open", "read_short", "restore_channel"}

FromChannel(ch, header) ==
    /\ last' = [op |-> "from_channel", ch |-> ch, file |-> from_channel(Txn, ch, header).file,
                out |-> from_channel(Txn, ch, header).state]
    /\ Pristine

Open(expected) ==
    /\ Tagged
    /\ last' = [op |-> "open", ch |-> last.ch, file |-> last.file,
                expected |-> expected, out |-> open(last.file, expected)]
    /\ Pristine

ReadShort(expected) ==
    /\ Tagged
    /\ last' = [op |-> "read_short", ch |-> last.ch, file |-> last.file,
                expected |-> expected, out |-> read_short(last.file, expected)]
    /\ Pristine

RestoreChannel ==
    /\ Tagged
    /\ last' = [op |-> "restore_channel", ch |-> last.ch, file |-> last.file,
                out |-> restore_channel(last.file, Fresh)]
    /\ Pristine

\* The states a caller may expect: those of the channels, and that of an
\* empty channel.
Expected == {current_state(Txn, c) : c \in Chans} \cup {{}}

NextTag ==
    \/ \E ch \in Chans, h \in Hashes : Apply(ch, h)
    \/ \E ch \in Chans : Tag(ch)
    \/ \E ch \in Chans, header \in {"v1", "v2"} : FromChannel(ch, header)
    \/ \E expected \in Expected : Open(expected)
    \/ \E expected \in Expected : ReadShort(expected)
    \/ RestoreChannel

SpecTag == Init /\ [][NextTag]_vars

(* ------------------------------------------- graphs given as input --- *)

\* I5: the vertex is ROOT_VERTEX or has an incoming edge that is neither
\* PARENT nor DELETED.
Alive(G, v) ==
    \/ v = ROOT_VERTEX
    \/ \E e \in G : e.dest = start_pos(v) /\ PARENT \notin e.flag /\ DELETED \notin e.flag

\* The vertices reached from those of S along edges that are neither PARENT
\* nor DELETED and whose flags are at most `mask`.
RECURSIVE Reached(_, _, _)
Reached(G, S, mask) ==
    LET more(nxt) == IF nxt \subseteq S THEN S ELSE Reached(G, S \cup nxt, mask)
    IN more({v \in Vertices(G) :
               \E e \in G : /\ e.k \in S /\ e.dest = start_pos(v)
                            /\ PARENT \notin e.flag /\ DELETED \notin e.flag
                            /\ FlagVal(e.flag) <= FlagVal(mask)})

\* Three lines of three changes and the change that deleted some of them.
LineA == <<1, 0, 1>>
LineB == <<2, 0, 1>>
LineC == <<3, 0, 1>>
Deleter == LineC[1] + 1

\* The graph with the given edges <<from, to, flag, introduced_by>>, each
\* stored with its reverse.
GraphOf(S) == UNION {put_graph_with_rev({}, x[3], x[1], x[2], x[4]) : x \in S}

\* The edge from u to v as its change put it, as a later change deleted
\* it, or as a folder edge.
EdgeStates(u, v, by, folder) ==
    {<<u, v, {BLOCK}, by>>, <<u, v, {BLOCK, DELETED}, Deleter>>}
    \cup (IF folder THEN {<<u, v, {BLOCK, FOLDER}, by>>} ELSE {})

\* Pseudo-edges that application may have put, and an edge that closes a
\* cycle between two lines.
OptionalEdges ==
    {<<ROOT_VERTEX, LineB, {PSEUDO}, Deleter>>, <<ROOT_VERTEX, LineC, {PSEUDO}, Deleter>>,
     <<LineA, LineC, {PSEUDO}, Deleter>>, <<LineC, LineB, {BLOCK}, 3>>}

\* Application keeps every alive vertex reachable from the root through
\* edges that are not deleted.
Connected(G) ==
    \A v \in Vertices(G) :
       Alive(G, v) => v \in Reached(G, {ROOT_VERTEX}, AllFlags \ {PARENT, DELETED})

Graphs ==
    {G \in {GraphOf({a, b, c} \cup opt) :
              a \in EdgeStates(ROOT_VERTEX, LineA, 1, TRUE),
              b \in EdgeStates(LineA, LineB, 2, FALSE),
              c \in EdgeStates(LineB, LineC, 3, FALSE),
              opt \in SUBSET OptionalEdges} : Connected(G)}

\* What the last operation on the graph was: the vertices retrieve
\* returned, the entries remove_forward_edges deleted.
GraphOutcome(op, include_deleted, lines, deleted) ==
    [op |-> op, include_deleted |-> include_deleted, lines |-> lines,
     deleted |-> deleted]

InitGraph ==
    /\ graph \in {[c \in Chans |-> IF c = "main" THEN G ELSE {}] : G \in Graphs}
    /\ changes = [c \in Chans |-> {}]
    /\ revchanges = [c \in Chans |-> {}]
    /\ states = [c \in Chans |-> {}]
    /\ tags = [c \in Chans |-> {}]
    /\ apply_counter = [c \in Chans |-> 0]
    /\ internal_ = {}
    /\ external = {}
    /\ dep = {}
    /\ revdep = {}
    /\ call = Idle
    /\ last = GraphOutcome("init", FALSE, {}, {})

\* retrieve from the root position.
Retrieve(include_deleted) ==
    /\ last' = GraphOutcome("retrieve", include_deleted,
                            exposed(retrieve(graph["main"], <<ROOT, 0>>, include_deleted)),
                            {})
    /\ UNCHANGED <<graph, changes, revchanges, states, tags, apply_counter,
                   internal_, external, dep, revdep, call>>

\* remove_forward_edges at the root position.
RemoveForward ==
    /\ graph' = [graph EXCEPT !["main"] = remove_forward_edges(@, <<ROOT, 0>>)]
    /\ last' = GraphOutcome("remove_forward_edges", FALSE, {},
                            graph["main"] \ graph'["main"])
    /\ UNCHANGED <<changes, revchanges, states, tags, apply_counter,
                   internal_, external, dep, revdep, call>>

NextGraph ==
    \/ \E include_deleted \in BOOLEAN : Retrieve(include_deleted)
    \/ RemoveForward

SpecGraph == InitGraph /\ [][NextGraph]_vars

\* ---------------------------------------------------------------------
\* retrieve, one popped vertex at a time
\* ---------------------------------------------------------------------

\* A call of retrieve in progress and its local state.
Retrieving(include_deleted, st) ==
    [pc |-> "retrieve", include_deleted |-> include_deleted, st |-> st]

\* The vertex ids the call in progress has popped so far.
Popped(include_deleted, popped) ==
    [op |-> "pop", include_deleted |-> include_deleted, popped |-> popped]

\* retrieve is called at the root position.
RetrieveCall(include_deleted) ==
    /\ call = Idle
    /\ call' = Retrieving(include_deleted, retrieve_begin(<<ROOT, 0>>))
    /\ last' = Popped(include_deleted, <<>>)
    /\ UNCHANGED <<graph, changes, revchanges, states, tags, apply_counter,
                   internal_, external, dep, revdep>>

\* Line 34: `while let Some(vid) = stack.pop()` takes the top of the stack.
Pops ==
    /\ call.pc = "retrieve"
    /\ call.st.stack # <<>> /\ ~call.st.panic
    /\ last' = Popped(call.include_deleted,
                      Append(last.popped, call.st.stack[Len(call.st.stack)]))

\* Lines 34-74: one turn of the loop.
RetrievePop ==
    /\ Pops
    /\ call' = Retrieving(call.include_deleted,
                          retrieve_pop(graph["main"], call.st,
                                       call.st.stack[Len(call.st.stack)],
                                       call.include_deleted))
    /\ UNCHANGED <<graph, changes, revchanges, states, tags, apply_counter,
                   internal_, external, dep, revdep>>

\* Line 76: the stack is empty and the graph is returned.
RetrieveReturn ==
    /\ call.pc = "retrieve"
    /\ call.st.stack = <<>> \/ call.st.panic
    /\ call' = Idle
    /\ last' = GraphOutcome("retrieve", call.include_deleted, exposed(call.st), {})
    /\ UNCHANGED <<graph, changes, revchanges, states, tags, apply_counter,
                   internal_, external, dep, revdep>>

NextRetrieve ==
    \/ \E include_deleted \in BOOLEAN : RetrieveCall(include_deleted)
    \/ RetrievePop
    \/ RetrieveReturn

\* The loop of retrieve runs on its own thread of control: while the
\* stack has a vertex the next pop happens, and an empty stack returns.
FairRetrieve ==
    InitGraph /\ [][NextRetrieve]_vars /\ WF_last(Pops) /\ WF_vars(RetrieveReturn)

(* ------------------------------------------ zombies given as input --- *)

\* A directory, a file in it and two lines of the file; the second line is
\* of the same change as the first.
LineD == <<LineC[1], LineC[3], LineC[3] + 1>>

\* The folder edge from u to v, alive or deleted.
FolderStates(u, v, by) ==
    {{<<u, v, {BLOCK, FOLDER}, by>>}, {<<u, v, {BLOCK, FOLDER, DELETED}, Deleter>>}}

\* The edge from u to v: absent, alive, deleted, or a pseudo-edge that an
\* earlier application put and that has not been cleaned since.
LineStates(u, v, by) ==
    {{}, {<<u, v, {BLOCK}, by>>}, {<<u, v, {BLOCK, DELETED}, Deleter>>},
     {<<u, v, {PSEUDO}, by>>}}

Zombies ==
    {GraphOf(rd \cup df \cup rf \cup fc \cup fd \cup cd \cup dc) :
        rd \in FolderStates(ROOT_VERTEX, LineA, 1),
        df \in FolderStates(LineA, LineB, 2),
        rf \in {{}, {<<ROOT_VERTEX, LineB, {PSEUDO, FOLDER}, Deleter>>}},
        fc \in LineStates(LineB, LineC, 3),
        fd \in LineStates(LineB, LineD, 3),
        cd \in LineStates(LineC, LineD, 3),
        dc \in {{}, {<<LineD, LineC, {PSEUDO}, Deleter>>}}}

ZombieOutcome(op, to, before, ws) ==
    [op |-> op, to |-> to, before |-> before, ws |-> ws]

InitZombie ==
    /\ graph \in {[c \in Chans |-> IF c = "main" THEN G ELSE {}] : G \in Zombies}
    /\ changes = [c \in Chans |-> {}]
    /\ revchanges = [c \in Chans |-> {}]
    /\ states = [c \in Chans |-> {}]
    /\ tags = [c \in Chans |-> {}]
    /\ apply_counter = [c \in Chans |-> 0]
    /\ internal_ = {<<"hp", 1>>, <<"hs", 2>>, <<"hq", 3>>, <<"hq2", Deleter>>}
    /\ external = {<<1, "hp">>, <<2, "hs">>, <<3, "hq">>, <<Deleter, "hq2">>}
    /\ dep = {}
    /\ revdep = {}
    /\ call = Idle
    /\ last = ZombieOutcome("init", <<ROOT, 0>>, {}, <<>>)

\* collect_zombies_pseudo at the position of the file.
CollectZombiesPseudo ==
    /\ last' = ZombieOutcome("collect_zombies_pseudo", start_pos(LineB), graph["main"],
                             collect_zombies_pseudo(graph["main"], start_pos(LineB)))
    /\ UNCHANGED <<graph, changes, revchanges, states, tags, apply_counter,
                   internal_, external, dep, revdep, call>>

\* remove_zombies of the deleting change for an edge map of one edge to the
\* vertex `to`.
RemoveZombies(to) ==
    LET newedges == EdgeMap(<<[to |-> to]>>)
        k(r) ==
          /\ graph' = [graph EXCEPT !["main"] = r.g]
          /\ last' = ZombieOutcome("remove_zombies", to, graph["main"], r.ok)
    IN /\ k(remove_zombies(Txn, graph["main"], Deleter, newedges))
       /\ UNCHANGED <<changes, revchanges, states, tags, apply_counter,
                      internal_, external, dep, revdep, call>>

NextZombie ==
    \/ CollectZombiesPseudo
    \/ \E to \in {<<"hs", 0, 1>>, <<"hq", 0, 1>>, <<"hq", 1, 2>>} : RemoveZombies(to)

SpecZombie == InitZombie /\ [][NextZombie]_vars

\* ------------------------------------------------------------------------
\* The touched inodes in any order
\* ------------------------------------------------------------------------

\* The edge that put v under u, alive or deleted since.
PutStates(u, v, flag, by) ==
    {{<<u, v, flag, by>>}, {<<u, v, flag \cup {DELETED}, Deleter>>}}

\* A pseudo-edge from u to v, or none.
PseudoStates(u, v, flag) == {{}, {<<u, v, flag \cup {PSEUDO}, Deleter>>}}

\* A directory LineA under the root, a file LineB in it with the lines
\* LineC and LineD: every edge alive or deleted, with or without a
\* pseudo-edge along it, and with or without one from the root to the file.
TouchedGraphs ==
    {GraphOf(ra \cup pa \cup ab \cup pab \cup rb \cup bc \cup pbc \cup cd \cup pcd) :
        ra \in PutStates(ROOT_VERTEX, LineA, {BLOCK, FOLDER}, 1),
        pa \in PseudoStates(ROOT_VERTEX, LineA, {FOLDER}),
        ab \in PutStates(LineA, LineB, {BLOCK, FOLDER}, 2),
        pab \in PseudoStates(LineA, LineB, {FOLDER}),
        rb \in PseudoStates(ROOT_VERTEX, LineB, {FOLDER}),
        bc \in PutStates(LineB, LineC, {BLOCK}, 3),
        pbc \in PseudoStates(LineB, LineC, {}),
        cd \in PutStates(LineC, LineD, {BLOCK}, 3),
        pcd \in PseudoStates(LineC, LineD, {})}

\* The orders in which a HashSet of the inodes of the directory, of the file
\* and of a file of a change that is not known can be iterated (line 240).
TouchedOrders ==
    LET inodes == {<<"hp", 0>>, <<"hs", 0>>, <<"hx", 0>>}
    IN UNION {{o \in [1..n -> inodes] : \A i, j \in 1..n : o[i] = o[j] => i = j} :
                n \in 1..3}

InitTouched ==
    /\ graph \in {[c \in Chans |-> IF c = "main" THEN G ELSE {}] : G \in TouchedGraphs}
    /\ changes = [c \in Chans |-> {}]
    /\ revchanges = [c \in Chans |-> {}]
    /\ states = [c \in Chans |-> {}]
    /\ tags = [c \in Chans |-> {}]
    /\ apply_counter = [c \in Chans |-> 0]
    /\ internal_ = {<<"hp", 1>>, <<"hs", 2>>, <<"hq", 3>>, <<"hq2", Deleter>>}
    /\ external = {<<1, "hp">>, <<2, "hs">>, <<3, "hq">>, <<Deleter, "hq2">>}
    /\ dep = {}
    /\ revdep = {}
    /\ call = Idle
    /\ last = [op |-> "init", touched |-> <<>>, before |-> {}, ok |-> TRUE,
               entered |-> <<>>]

\* The change that is unrecorded: passes A and B have taken its edges out.
Leaver == Deleter + 1

\* Lines 240-262 for the touched inodes in the order `touched`.
PseudoPass(touched) ==
    LET k(r) ==
          /\ graph' = [graph EXCEPT !["main"] = r.g]
          /\ last' = [op |-> "unapply_pseudo", touched |-> touched,
                      before |-> graph["main"], ok |-> r.ok, entered |-> r.entered]
    IN /\ k(unapply_pseudo_in(Txn, graph["main"], Leaver, touched, 1, Workspace))
       /\ UNCHANGED <<changes, revchanges, states, tags, apply_counter,
                      internal_, external, dep, revdep, call>>

NextTouched == \E touched \in TouchedOrders : PseudoPass(touched)

SpecTouched == InitTouched /\ [][NextTouched]_vars

(* ------------------------------------- re-introduction of an edge --- *)

\* hp's line, and the changes that may have an edge from the root to it.
HpLine == <<1, 0, 3>>
Deleters == <<"hq", "hq2", "hx", "hy">>
DeleterId(h) == CHOOSE i \in DOMAIN Deleters : Deleters[i] = h

\* The numbers of the changes: hp and hs first, then the deleters.
IdOf(h) == IF h = "hp" THEN 1 ELSE IF h = "hs" THEN 2 ELSE 2 + DeleterId(h)

\* hp's line as the two vertices that a later insertion split it into.
HpHead == <<HpLine[1], HpLine[2], HpLine[2] + 1>>
HpTail == <<HpLine[1], HpLine[2] + 1, HpLine[3]>>

\* The graph in which the changes of D each have a deleted edge from the
\* root to hp's line, next to an edge to another vertex and, if `pseudo`,
\* a pseudo-edge that the root change put.  If `split`, the line is two
\* vertices and the changes of D deleted the edge between them as well.
ReintroGraph(D, pseudo, split) ==
    GraphOf({<<ROOT_VERTEX, IF split THEN HpHead ELSE HpLine, {BLOCK, DELETED}, IdOf(h)>> :
               h \in D}
            \cup (IF split THEN {<<HpHead, HpTail, {BLOCK, DELETED}, IdOf(h)>> : h \in D}
                  ELSE {})
            \cup {<<ROOT_VERTEX, <<2, 0, 2>>, {BLOCK}, 2>>}
            \cup (IF pseudo THEN {<<ROOT_VERTEX, IF split THEN HpHead ELSE HpLine,
                                    {PSEUDO}, ROOT>>} ELSE {}))

Range(q) == {q[i] : i \in DOMAIN q}

InitReintro ==
    \E D \in SUBSET Range(Deleters), K \in SUBSET Range(Deleters),
       pseudo \in BOOLEAN, split \in BOOLEAN :
       /\ graph = [c \in Chans |->
                     IF c = "main" THEN ReintroGraph(D, pseudo, split) ELSE {}]
       /\ internal_ = {<<h, IdOf(h)>> : h \in {"hp", "hs"} \cup D \cup K}
       /\ external = {<<IdOf(h), h>> : h \in {"hp", "hs"} \cup D \cup K}
       /\ changes = [c \in Chans |-> {}]
       /\ revchanges = [c \in Chans |-> {}]
       /\ states = [c \in Chans |-> {}]
       /\ tags = [c \in Chans |-> {}]
       /\ apply_counter = [c \in Chans |-> 0]
       /\ dep = {}
       /\ revdep = {}
       /\ call = Idle
       /\ last = [op |-> "init", intro |-> "hp", current_id |-> ROOT, result |-> FALSE]

\* must_reintroduce for the edge from the root to hp's line that `intro`
\* introduced, while the change current_id is unrecorded.
MustReintroduce(intro, current_id) ==
    /\ Has(external, current_id)
    /\ last' = [op |-> "must_reintroduce", intro |-> intro, current_id |-> current_id,
                result |-> must_reintroduce(Txn, graph["main"], ROOT_VERTEX,
                              IF HpHead \in Vertices(graph["main"]) THEN HpHead ELSE HpLine,
                              intro, IdOf(intro), current_id)]
    /\ UNCHANGED <<graph, changes, revchanges, states, tags, apply_counter,
                   internal_, external, dep, revdep, call>>

\* unapply_edges of the edge map of a change that has edges in the graph;
\* the changes whose edges it replaced were there when it was applied.
UnapplyEdges(h) ==
    LET newedges == Change(h).changes[1]
        k(r, reintro) ==
          /\ graph' = [graph EXCEPT !["main"] = r.g]
          /\ last' = [op |-> "unapply_edges", hash |-> h, before |-> graph["main"],
                      ok |-> r.ok, reintro |-> reintro.set,
                      must_reintroduce |-> IF reintro.ok THEN {} ELSE reintro.set]
    IN /\ \E e \in graph["main"] : e.by = IdOf(h)
       /\ \A i \in DOMAIN newedges.edges : Has(internal_, newedges.edges[i].introduced_by)
       /\ k(unapply_edges(Txn, graph["main"], IdOf(h), newedges),
            reintro_set(Txn, graph["main"], IdOf(h), newedges))
       /\ UNCHANGED <<changes, revchanges, states, tags, apply_counter,
                      internal_, external, dep, revdep, call>>

\* The knowledge oracle that unapply_edges of change hc hands to put_newedge
\* for edge i of its edge map, asked about h.
Knows(hc, i, h) ==
    /\ Has(internal_, hc)
    /\ i \in DOMAIN Change(hc).changes[1].edges
    /\ last' = [op |-> "knows", hash |-> hc, edge |-> Change(hc).changes[1].edges[i],
                h |-> h,
                answer |-> knows_oracle(Txn, IdOf(hc), Change(hc).changes[1].edges[i], h)]
    /\ UNCHANGED <<graph, changes, revchanges, states, tags, apply_counter,
                   internal_, external, dep, revdep, call>>

NextReintro ==
    \/ \E intro \in {"hp", "hs"}, current_id \in {IdOf(h) : h \in Range(Deleters)} :
          MustReintroduce(intro, current_id)
    \/ \E h \in Range(Deleters) : UnapplyEdges(h)
    \/ \E hc \in Range(Deleters), i \in 1..2, h \in {"hp", "hs"} \cup Range(Deleters) :
          Knows(hc, i, h)

SpecReintro == InitReintro /\ [][NextReintro]_vars

(* --------------------------------- the structural pass, atom by atom --- *)

\* The change that is unrecorded: up to MaxLines lines, one after the
\* other, each in the file of one of two inodes, and possibly an edge map
\* that deletes hp's line, in the file of one of three inodes.
MaxLines == 3
LineAtom(j, inode) ==
    [NewVertex(j - 1, j, <<IF j = 1 THEN <<"ROOT", 0>> ELSE <<"None", j - 1>>>>)
       EXCEPT !.inode = inode]
DeleteAtom(inode) == [Change("hq").changes[1] EXCEPT !.inode = inode]

LineAtoms ==
    UNION {[1..n -> {<<"ROOT", 0>>, <<"None", 0>>}] : n \in 1..MaxLines}
PassAChanges ==
    {[j \in DOMAIN f |-> LineAtom(j, f[j])] : f \in LineAtoms}
    \cup {<<DeleteAtom(inode)>> \o [j \in DOMAIN f |-> LineAtom(j, f[j])] :
            f \in LineAtoms, inode \in {<<"ROOT", 0>>, <<"hp", 0>>, <<"None", 0>>}}
    \cup {[j \in DOMAIN f |-> LineAtom(j, f[j])] \o <<DeleteAtom(inode)>> :
            f \in LineAtoms, inode \in {<<"ROOT", 0>>, <<"hp", 0>>}}

\* The pristine in which hp and then the change were applied to main.
Applied(atoms) ==
    LET with(P, id) == [P EXCEPT !.graph["main"] = apply_atoms(P, @, id, atoms, 1)]
        hq(P) == with(register_change(P, make_changeid(P, "hq"), "hq"),
                      make_changeid(P, "hq"))
    IN hq(apply_change(Fresh, "main", "hp"))

InitPassA ==
    \E atoms \in PassAChanges :
       /\ graph = Applied(atoms).graph
       /\ changes = Applied(atoms).changes
       /\ revchanges = Applied(atoms).revchanges
       /\ states = Applied(atoms).states
       /\ tags = Applied(atoms).tags
       /\ apply_counter = Applied(atoms).apply_counter
       /\ internal_ = Applied(atoms).internal
       /\ external = Applied(atoms).external
       /\ dep = Applied(atoms).dep
       /\ revdep = Applied(atoms).revdep
       /\ call = [pc |-> "structural", change_id |-> make_changeid(Applied(atoms), "hq"),
                  atoms |-> [i \in DOMAIN atoms |-> atoms[Len(atoms) + 1 - i]],
                  i |-> 1, clean_inodes |-> {}, touched |-> <<>>, calls |-> <<>>]
       /\ last = [op |-> "init"]

\* One turn of the loop of lines 173-205.
Structural ==
    LET a == call.atoms[call.i]
        k(r) ==
          /\ graph' = [graph EXCEPT !["main"] = r.g]
          /\ call' = [call EXCEPT
                        !.pc = IF ~r.ok THEN "failed"
                               ELSE IF call.i = Len(call.atoms) THEN "zombies"
                               ELSE "structural",
                        !.i = @ + 1,
                        !.touched = IF \E j \in DOMAIN @ : @[j] = a.inode THEN @
                                    ELSE Append(@, a.inode),
                        !.clean_inodes = IF a.type = "NewVertex" THEN @ \cup {a.inode}
                                         ELSE @,
                        !.calls = @ \o structural_calls(a, call.i, call.clean_inodes)]
    IN /\ call.pc = "structural"
       /\ k(unapply_atom(Txn, graph["main"], call.change_id, a,
                         a.inode \notin call.clean_inodes))
       /\ UNCHANGED <<changes, revchanges, states, tags, apply_counter,
                      internal_, external, dep, revdep, last>>

\* Lines 207-262: the zombies of the edge maps, then the pseudo-edges of
\* every touched inode.
ZombiePasses ==
    LET k(r) ==
          /\ graph' = [graph EXCEPT !["main"] = r.g]
          /\ call' = [call EXCEPT
                        !.pc = IF r.ok THEN "done" ELSE "failed",
                        !.calls = @ \o [j \in DOMAIN call.touched |->
                                          [fn |-> "collect_zombies_pseudo",
                                           inode |-> call.touched[j], atom |-> 0]]]
        passB(b) ==
          IF ~b.ok THEN b
          ELSE unapply_pseudo(Txn, b.g, call.change_id, call.touched, 1)
    IN /\ call.pc = "zombies"
       /\ k(passB(unapply_zombies(Txn, graph["main"], call.change_id, call.atoms, 1)))
       /\ UNCHANGED <<changes, revchanges, states, tags, apply_counter,
                      internal_, external, dep, revdep, last>>

NextPassA == Structural \/ ZombiePasses

SpecPassA == InitPassA /\ [][NextPassA]_vars

\* ---------------------------------------------------------------------
\* unapply_newvertex, one piece at a time
\* ---------------------------------------------------------------------

\* The change whose vertex [0, MaxPieces) later changes have cut.
Cut == LineC[1]
Piece(a, b) == <<Cut, a, b>>

\* The pieces of the vertex when it is cut at the positions of `cuts`.
PiecesOf(cuts) ==
    {Piece(a, b) : a \in {0} \cup cuts, b \in cuts \cup {MaxPieces}}
    \cap {v \in (0..MaxPieces) \X (0..MaxPieces) \X (0..MaxPieces) :
            v[2] < v[3] /\ \A c \in cuts : c <= v[2] \/ v[3] <= c}

\* An edge that is alive, introduced by `by`, or deleted by a later change.
Lived(u, v, by, alive) ==
    IF alive THEN <<u, v, {BLOCK}, by>> ELSE <<u, v, {BLOCK, DELETED}, Deleter>>

\* LineA, the pieces in a chain under it, LineB under the last piece or
\* not, a pseudo-edge to the last piece or not.
PieceGraphs ==
    {GraphOf({<<ROOT_VERTEX, LineA, {BLOCK, FOLDER}, LineA[1]>>,
              <<LineA, LineB, {BLOCK}, LineB[1]>>}
             \cup {Lived(IF v[2] = 0 THEN LineA
                         ELSE CHOOSE u \in PiecesOf(cuts) : u[3] = v[2],
                         v, Cut, alive[v[2]]) : v \in PiecesOf(cuts)}
             \cup {<<v, LineB, {BLOCK}, Cut>> :
                     v \in {u \in PiecesOf(cuts) : down /\ u[3] = MaxPieces}}
             \cup {<<LineA, v, {PSEUDO}, Deleter>> :
                     v \in {u \in PiecesOf(cuts) : pseudo /\ u[3] = MaxPieces}}) :
       cuts \in SUBSET (1..(MaxPieces - 1)),
       alive \in [0..(MaxPieces - 1) -> BOOLEAN],
       down \in BOOLEAN, pseudo \in BOOLEAN}

\* The NewVertex atoms of the change: the whole vertex, or one of two
\* atoms that meet at a position.
PieceAtoms ==
    {[start |-> 0, end |-> b] : b \in 1..MaxPieces}
    \cup {[start |-> a, end |-> MaxPieces] : a \in 1..(MaxPieces - 1)}

\* A call of unapply_newvertex in progress.
Unapplying(new_vertex_, pos) ==
    [pc |-> "unapply_newvertex", change_id |-> Cut, new_vertex |-> new_vertex_,
     pos |-> pos]

\* What the call has done so far: the vertices its loop found.
Found(op, new_vertex_, found) ==
    [op |-> op, new_vertex |-> new_vertex_, found |-> found]

InitPieces ==
    /\ graph \in {[c \in Chans |-> IF c = "main" THEN G ELSE {}] : G \in PieceGraphs}
    /\ changes = [c \in Chans |-> {}]
    /\ revchanges = [c \in Chans |-> {}]
    /\ states = [c \in Chans |-> {}]
    /\ tags = [c \in Chans |-> {}]
    /\ apply_counter = [c \in Chans |-> 0]
    /\ internal_ = {}
    /\ external = {}
    /\ dep = {}
    /\ revdep = {}
    /\ call = Idle
    /\ last = Found("init", [start |-> 0, end |-> 0], <<>>)

\* unapply_newvertex is called for an atom of the change, and then for the
\* atom next to it; a vertex of the graph lies in one atom only.
NewVertexCall(new_vertex_) ==
    /\ call = Idle
    /\ \/ last.op = "init"
       \/ /\ last.op = "unapply_newvertex"
          /\ \/ new_vertex_.start = last.new_vertex.end
             \/ new_vertex_.end = last.new_vertex.start
    /\ \A v \in Vertices(graph["main"]) :
          v[1] = Cut => \/ v[3] <= new_vertex_.start
                        \/ new_vertex_.end <= v[2]
                        \/ new_vertex_.start <= v[2] /\ v[3] <= new_vertex_.end
    /\ call' = Unapplying(new_vertex_, <<Cut, new_vertex_.start>>)
    /\ last' = Found("call", new_vertex_, <<>>)
    /\ UNCHANGED <<graph, changes, revchanges, states, tags, apply_counter,
                   internal_, external, dep, revdep>>

\* Line 301: `while let Ok(&vertex) = txn.find_block(channel, pos)` finds
\* a vertex.
Finds ==
    /\ call.pc = "unapply_newvertex"
    /\ find_block(graph["main"], call.pos) # NoVertex
    /\ last' = Found("turn", call.new_vertex,
                     Append(last.found, find_block(graph["main"], call.pos)))

\* Lines 301-328: one turn of the loop; an error leaves with `?`.
NewVertexTurn ==
    /\ Finds
    /\ \E t \in {unapply_newvertex_turn(graph["main"], call.change_id, call.new_vertex,
                                         call.pos, find_block(graph["main"], call.pos))} :
          /\ graph' = [graph EXCEPT !["main"] = t.g]
          /\ call' = IF t.ok THEN Unapplying(call.new_vertex, t.pos) ELSE Idle
    /\ UNCHANGED <<changes, revchanges, states, tags, apply_counter,
                   internal_, external, dep, revdep>>

\* Line 329: find_block finds nothing and the function returns Ok(()).
NewVertexReturn ==
    /\ call.pc = "unapply_newvertex"
    /\ find_block(graph["main"], call.pos) = NoVertex
    /\ call' = Idle
    /\ last' = Found("unapply_newvertex", call.new_vertex, last.found)
    /\ UNCHANGED <<graph, changes, revchanges, states, tags, apply_counter,
                   internal_, external, dep, revdep>>

NextPieces ==
    \/ \E new_vertex_ \in PieceAtoms : NewVertexCall(new_vertex_)
    \/ NewVertexTurn
    \/ NewVertexReturn

\* The loop runs on its own thread of control: while find_block finds a
\* vertex the turn for it happens, and when it finds none the call returns.
FairPieces ==
    InitPieces /\ [][NextPieces]_vars /\ WF_last(Finds) /\ WF_vars(NewVertexReturn)

\* ------------------------------------------------------------------------
\* The working-tree pass, atom by atom
\* ------------------------------------------------------------------------

\* Lines 216-236 of unapply: the call into working_copy that one atom
\* triggers, as the sequence of the functions called.
working_copy_any_vertex(atom) ==
    IF atom.type = "EdgeMap" /\ atom.edges = <<>> THEN <<>>
    ELSE IF atom.type = "EdgeMap" /\ FOLDER \in atom.edges[1].flag
    THEN IF DELETED \in atom.edges[1].flag THEN <<"undo_file_deletion">>
         ELSE <<"undo_file_reinsertion">>
    ELSE IF atom.type = "NewVertex" /\ FOLDER \in atom.flag
    THEN <<"undo_file_addition">>
    ELSE <<>>

working_copy(atom) ==
    IF atom.type = "EdgeMap" /\ atom.edges = <<>> THEN <<>>
    ELSE IF atom.type = "EdgeMap" /\ FOLDER \in atom.edges[1].flag
    THEN IF DELETED \in atom.edges[1].flag THEN <<"undo_file_deletion">>
         ELSE <<"undo_file_reinsertion">>
    ELSE IF atom.type = "NewVertex" /\ FOLDER \in atom.flag
                                    /\ atom.down_context = <<>>
    THEN <<"undo_file_addition">>
    ELSE <<>>

\* The atoms a change can hold: edge maps of no, one or two edges of any
\* flags, and new vertices with and without a down context.
TreeFlags == {{BLOCK}, {BLOCK, DELETED}, {FOLDER}, {FOLDER, DELETED}}
TreeEdge(f) ==
    [from |-> <<"ROOT", 0>>, to |-> <<"hp", 0, 3>>, previous |-> f \ {DELETED},
     flag |-> f, introduced_by |-> "hp"]
TreeAtoms ==
    {EdgeMap(<<>>)}
    \cup {EdgeMap(<<TreeEdge(f)>>) : f \in TreeFlags}
    \cup {EdgeMap(<<TreeEdge(f), TreeEdge(g)>>) : f \in TreeFlags, g \in TreeFlags}
    \cup {[NewVertex(0, 1, <<<<"ROOT", 0>>>>) EXCEPT !.flag = f, !.down_context = d] :
            f \in {{BLOCK}, {FOLDER}, {FOLDER, BLOCK}},
            d \in {<<>>, <<<<"hp", 3>>>>}}
TreeChanges == TreeAtoms \cup (TreeAtoms \X TreeAtoms)

InitTree ==
    \E c \in TreeChanges :
       LET atoms == IF c \in TreeAtoms THEN <<c>> ELSE c
       IN /\ graph = Fresh.graph
          /\ changes = Fresh.changes
          /\ revchanges = Fresh.revchanges
          /\ states = Fresh.states
          /\ tags = Fresh.tags
          /\ apply_counter = Fresh.apply_counter
          /\ internal_ = Fresh.internal
          /\ external = Fresh.external
          /\ dep = Fresh.dep
          /\ revdep = Fresh.revdep
          /\ call = [pc |-> "working_copy",
                     atoms |-> [i \in DOMAIN atoms |-> atoms[Len(atoms) + 1 - i]],
                     i |-> 1, calls |-> <<>>]
          /\ last = [op |-> "init"]

\* One turn of the loop of lines 216-236.
WorkingCopy ==
    /\ call.pc = "working_copy"
    /\ call' = [call EXCEPT
                  !.pc = IF call.i = Len(call.atoms) THEN "done" ELSE "working_copy",
                  !.i = @ + 1,
                  !.calls = Append(@, working_copy(call.atoms[call.i]))]
    /\ UNCHANGED <<graph, changes, revchanges, states, tags, apply_counter,
                   internal_, external, dep, revdep, last>>

NextTree == WorkingCopy

SpecTree == InitTree /\ [][NextTree]_vars

(* ------------------------------------------ unrecord, step by step --- *)

\* The statement that follows a completed one in unrecord (lines 71-99),
\* del_channel_changes (lines 110-134) and unapply (lines 173-271).
step_after_purging_early(pc, unused) ==
    CASE pc = "lookup" -> "scan"
      [] pc = "scan" -> "check"
      [] pc = "check" -> "remove"
      [] pc = "remove" -> IF unused THEN "purge" ELSE "fetch"
      [] pc = "purge" -> "fetch"
      [] pc = "fetch" -> "passA"
      [] pc = "passA" -> "passB"
      [] pc = "passB" -> "passC"
      [] pc = "passC" -> "passD"
      [] pc = "passD" -> "clean"
      [] pc = "clean" -> "repair"
      [] pc = "repair" -> "touch"
      [] pc = "touch" -> "returned"

step_after(pc, unused) ==
    CASE pc = "lookup" -> "scan"
      [] pc = "scan" -> "check"
      [] pc = "check" -> "remove"
      [] pc = "remove" -> "fetch"
      [] pc = "fetch" -> "passA"
      [] pc = "passA" -> "passB"
      [] pc = "passB" -> "passC"
      [] pc = "passC" -> "passD"
      [] pc = "passD" -> "clean"
      [] pc = "clean" -> "repair"
      [] pc = "repair" -> "touch"
      [] pc = "touch" -> IF unused THEN "purge" ELSE "returned"
      [] pc = "purge" -> "returned"

\* A statement completes and the next one is reached; the call that went
\* through all of them returns Ok(!unused) (lines 96-99).
proceed(c) ==
    LET result == IF c.unused THEN "Ok(false)" ELSE "Ok(true)"
        to(next) == [c EXCEPT !.pc = next, !.done = Append(@, c.pc),
                              !.res = IF next = "returned" THEN result ELSE @]
    IN to(step_after(c.pc, c.unused))

\* The error return as it would be if it ended the transaction.
fail_aborting(c, err) == [c EXCEPT !.pc = "failed", !.res = err, !.txn = "none"]

\* The `?` of lines 79, 83 and 85: the error is returned at once and the
\* transaction is left as it is.
fail(c, err) == [c EXCEPT !.pc = "failed", !.res = err]

Unmoved == UNCHANGED <<graph, changes, revchanges, states, tags, apply_counter,
                       internal_, external, dep, revdep, last>>

PutGraph(ch, G) ==
    /\ graph' = [graph EXCEPT ![ch] = G]
    /\ UNCHANGED <<changes, revchanges, states, tags, apply_counter,
                   internal_, external, dep, revdep, last>>

\* The caller opens a write transaction and calls unrecord.
Begin(ch, h) ==
    /\ call.pc = "idle"
    /\ call' = [Idle EXCEPT !.pc = "lookup", !.ch = ch, !.hash = h,
                            !.begin = Txn, !.txn = "open"]
    /\ Unmoved

\* Lines 71-75.
Lookup ==
    /\ call.pc = "lookup"
    /\ call' = IF Has(internal_, call.hash)
               THEN [proceed(call) EXCEPT !.change_id = GetOne(internal_, call.hash)]
               ELSE [call EXCEPT !.pc = "returned", !.res = "Ok(false)",
                                 !.done = Append(@, "lookup")]
    /\ Unmoved

\* Line 76.
Scan ==
    /\ call.pc = "scan"
    /\ call' = proceed([call EXCEPT !.unused =
                          unused_in_other_channels(Txn, call.ch, call.change_id)])
    /\ Unmoved

\* Lines 110-129 of del_channel_changes: the timestamp and the dependents.
Check ==
    /\ call.pc = "check"
    /\ \E r \in {del_channel_changes(Txn, call.ch, call.change_id)} :
          call' = IF r.err = "none" THEN proceed(call) ELSE fail(call, r.err)
    /\ Unmoved

\* Lines 131-134 of del_channel_changes: del_changes and del_tags.
Remove ==
    /\ call.pc = "remove"
    /\ Install(del_channel_changes(Txn, call.ch, call.change_id).txn)
    /\ call' = proceed(call)
    /\ UNCHANGED last

\* Lines 81-83: the change store gives the change, or fails.
Fetch ==
    /\ call.pc = "fetch"
    /\ \E found \in BOOLEAN :
          call' = IF found THEN proceed(call) ELSE fail(call, "Changestore")
    /\ Unmoved

\* Lines 173-205 of unapply.
PassA ==
    /\ call.pc = "passA"
    /\ \E r \in {unapply_structural(Txn, graph[call.ch], call.change_id,
                                    rev_atoms(Change(call.hash)), 1, {}, <<>>)} :
          /\ PutGraph(call.ch, r.g)
          /\ call' = IF r.ok THEN proceed([call EXCEPT !.touched = r.touched])
                     ELSE fail(call, "Block")

\* Lines 207-214 of unapply.
PassB ==
    /\ call.pc = "passB"
    /\ \E r \in {unapply_zombies(Txn, graph[call.ch], call.change_id,
                                 rev_atoms(Change(call.hash)), 1)} :
          /\ PutGraph(call.ch, r.g)
          /\ call' = IF r.ok THEN proceed(call) ELSE fail(call, "Block")

\* Lines 216-236 of unapply: the working copy, which is no table of the
\* pristine.
PassC ==
    /\ call.pc = "passC"
    /\ call' = proceed(call)
    /\ Unmoved

\* Lines 240-262 of unapply.
PassD ==
    /\ call.pc = "passD"
    /\ \E r \in {unapply_pseudo(Txn, graph[call.ch], call.change_id, call.touched, 1)} :
          /\ PutGraph(call.ch, r.g)
          /\ call' = IF r.ok THEN proceed(call) ELSE fail(call, "Block")

\* Lines 264-269 of unapply.
Clean ==
    /\ call.pc = "clean"
    /\ PutGraph(call.ch, clean_obsolete_pseudo_edges(graph[call.ch], call.change_id))
    /\ call' = proceed(call)

\* Line 270 of unapply.
Repair ==
    /\ call.pc = "repair"
    /\ PutGraph(call.ch, repair_cyclic_paths(graph[call.ch]))
    /\ call' = proceed(call)

\* Line 271 of unapply.
Touch ==
    /\ call.pc = "touch"
    /\ call' = proceed(call)
    /\ Unmoved

\* Lines 87-95.
Purge ==
    /\ call.pc = "purge"
    /\ IF Has(revdep, call.change_id)
          \/ \E d \in Change(call.hash).dependencies : ~Has(internal_, d)
       THEN call' = fail(call, "panic") /\ Unmoved
       ELSE /\ Install(purge(Txn, call.change_id, call.hash, Change(call.hash)))
            /\ call' = proceed(call)
            /\ UNCHANGED last

\* The caller commits what a successful call left.
Commit ==
    /\ call.pc = "returned"
    /\ call' = Idle
    /\ Unmoved

\* The caller aborts after an error: the tables are those of the last commit.
Abort ==
    /\ call.pc = "failed"
    /\ Install(call.begin)
    /\ call' = Idle
    /\ UNCHANGED last

NextSteps ==
    \/ \E ch \in Chans, h \in Hashes : call.pc = "idle" /\ Apply(ch, h)
    \/ \E ch \in Chans, h \in Hashes : Begin(ch, h)
    \/ Lookup
    \/ Scan
    \/ Check
    \/ Remove
    \/ Fetch
    \/ PassA
    \/ PassB
    \/ PassC
    \/ PassD
    \/ Clean
    \/ Repair
    \/ Touch
    \/ Purge
    \/ Commit
    \/ Abort

SpecSteps == Init /\ [][NextSteps]_vars

(* ------------------------------------------- the tag pipeline --- *)

PIPE_LEN == 10

\* compress_channel after lines 441-447: both channels are made, the
\* return channel holds PIPE_LEN buffers and the compressor thread is
\* spawned.  `pages` is the number of pages of the seven B-trees, `fwd` the
\* pages in the forward channel, `back` the buffers in the return channel;
\* `closed` is the sender of the forward channel dropped, `hung_up` its
\* receiver and the sender of the return channel dropped, `gone` the
\* receiver of the return channel dropped.
Pipe(pages) ==
    [pc |-> "pipe", pages |-> pages, prod |-> "recv", comp |-> "recv",
     fwd |-> <<>>, back |-> PIPE_LEN, sent |-> 0, consumed |-> <<>>,
     closed |-> FALSE, hung_up |-> FALSE, gone |-> FALSE,
     fault |-> "none", result |-> "none"]

InitPipe ==
    /\ graph = [c \in Chans |-> {}]
    /\ changes = [c \in Chans |-> {}]
    /\ revchanges = [c \in Chans |-> {}]
    /\ states = [c \in Chans |-> {}]
    /\ tags = [c \in Chans |-> {}]
    /\ apply_counter = [c \in Chans |-> 0]
    /\ internal_ = {}
    /\ external = {}
    /\ dep = {}
    /\ revdep = {}
    /\ last = Outcome("init", "main", "hp", "Ok", NoId, NoId, NoId, FALSE, FALSE)
    /\ call \in {Pipe(pages) : pages \in 7..MaxPages}

\* The send of line 646 as it would be if the producer sent a page without
\* having taken a buffer from the return channel.
send_page_unpaid(c) ==
    IF c.hung_up THEN [c EXCEPT !.prod = "panicked", !.result = "panic",
                                !.closed = TRUE, !.gone = TRUE]
    ELSE [c EXCEPT !.fwd = Append(@, c.sent + 1), !.sent = @ + 1,
                   !.back = @ + 1,
                   !.prod = IF c.sent + 1 = c.pages THEN "drop" ELSE "recv"]

\* The send of line 646 as it would be if the page were counted and not
\* put into the channel.
send_page_lost(c) ==
    IF c.hung_up THEN [c EXCEPT !.prod = "panicked", !.result = "panic",
                                !.closed = TRUE, !.gone = TRUE]
    ELSE [c EXCEPT !.sent = @ + 1, !.back = @ + 1,
                   !.prod = IF c.sent + 1 = c.pages THEN "drop" ELSE "recv"]

\* Line 646: sender.send(memory).unwrap().
send_page(c) ==
    IF c.hung_up THEN [c EXCEPT !.prod = "panicked", !.result = "panic",
                                !.closed = TRUE, !.gone = TRUE]
    ELSE [c EXCEPT !.fwd = Append(@, c.sent + 1), !.sent = @ + 1,
                   !.prod = IF c.sent + 1 = c.pages THEN "drop" ELSE "recv"]

\* Line 622 of copy: a buffer is taken from the return channel; the
\* producer blocks while the channel is empty and its sender lives.
ProducerRecv ==
    /\ call.pc = "pipe" /\ call.prod = "recv"
    /\ call.back > 0 \/ call.hung_up
    /\ call' = IF call.back > 0
               THEN [call EXCEPT !.back = @ - 1, !.prod = "send"]
               ELSE [call EXCEPT !.prod = "failed", !.result = "Sync",
                                 !.closed = TRUE, !.gone = TRUE]
    /\ Unmoved

\* Lines 623-646 of copy: the page is written into the buffer and sent; the
\* producer blocks while the forward channel is full.
ProducerSend ==
    /\ call.pc = "pipe" /\ call.prod = "send"
    /\ Len(call.fwd) < PIPE_LEN \/ call.hung_up
    /\ call' = send_page(call)
    /\ Unmoved

\* Line 536: the sender of the forward channel is dropped.
ProducerDrop ==
    /\ call.pc = "pipe" /\ call.prod = "drop"
    /\ call' = [call EXCEPT !.prod = "join", !.closed = TRUE]
    /\ Unmoved

\* Line 537: t.join().unwrap()?
Join ==
    /\ call.pc = "pipe" /\ call.prod = "join"
    /\ call.comp \in {"exited", "failed", "panicked"}
    /\ call' = [call EXCEPT
                  !.prod = IF call.comp = "exited" THEN "done"
                           ELSE IF call.comp = "failed" THEN "failed" ELSE "panicked",
                  !.result = IF call.comp = "exited" THEN "Ok"
                             ELSE IF call.comp = "failed" THEN "Sync" ELSE "panic",
                  !.gone = TRUE]
    /\ Unmoved

\* Line 451: receiver.recv(); the thread blocks while the forward channel
\* is empty and its sender lives, and leaves the loop when it is empty and
\* the sender is dropped.
CompressorRecv ==
    /\ call.pc = "pipe" /\ call.comp = "recv"
    /\ call.fwd # <<>> \/ call.closed
    /\ call' = IF call.fwd # <<>>
               THEN [call EXCEPT !.fwd = Tail(@), !.consumed = Append(@, call.fwd[1]),
                                 !.comp = "compress"]
               ELSE [call EXCEPT !.comp = "end"]
    /\ Unmoved

\* Lines 452-465: the page is compressed and written, and the buffer goes
\* back; the thread blocks while the return channel is full.
CompressorSendBack ==
    /\ call.pc = "pipe" /\ call.comp = "compress"
    /\ call.back < PIPE_LEN \/ call.gone
    /\ call' = IF call.gone
               THEN [call EXCEPT !.comp = "failed", !.hung_up = TRUE, !.fwd = <<>>]
               ELSE [call EXCEPT !.back = @ + 1, !.comp = "recv"]
    /\ Unmoved

\* Lines 467-473: the stream is ended and the thread returns.
EndStream ==
    /\ call.pc = "pipe" /\ call.comp = "end"
    /\ call' = [call EXCEPT !.comp = "exited", !.hung_up = TRUE]
    /\ Unmoved

\* Lines 457-464: compress or write_all fails and the unwrap panics; the
\* thread's ends of both channels and its buffer are dropped.
CompressorPanics ==
    /\ call.pc = "pipe" /\ call.comp = "compress"
    /\ call.fault = "none"
    /\ call' = [call EXCEPT !.comp = "panicked", !.fault = "compressor",
                            !.hung_up = TRUE, !.fwd = <<>>]
    /\ Unmoved

\* Line 621: load_page fails and the unwrap panics; the producer's ends of
\* both channels are dropped.
ProducerPanics ==
    /\ call.pc = "pipe" /\ call.prod = "recv"
    /\ call.fault = "none"
    /\ call' = [call EXCEPT !.prod = "panicked", !.fault = "producer",
                            !.result = "panic", !.closed = TRUE, !.gone = TRUE,
                            !.back = 0]
    /\ Unmoved

ProducerStep == ProducerRecv \/ ProducerSend \/ ProducerDrop \/ Join

CompressorStep == CompressorRecv \/ CompressorSendBack \/ EndStream

NextPipe ==
    \/ ProducerRecv
    \/ ProducerSend
    \/ ProducerDrop
    \/ Join
    \/ CompressorRecv
    \/ CompressorSendBack
    \/ EndStream
    \/ CompressorPanics
    \/ ProducerPanics

SpecPipe == InitPipe /\ [][NextPipe]_vars

\* Both threads run as long as they are not blocked.
FairPipe == SpecPipe /\ WF_vars(ProducerStep) /\ WF_vars(CompressorStep)

\* ------------------------------------------------------------------------
\* The pages of a tag, one by one
\* ------------------------------------------------------------------------

BLOCK_SIZE == 4096

\* The B-trees that compress_channel copies, in its order (lines 477-535).
Tables == <<"internal", "external", "graph", "changes", "revchanges", "states", "tags">>

\* The shapes of a B-tree of the source: its root alone, the root with a
\* left child, with the right child of its first entry, with both, or with
\* a left child that has a child of its own.
Shapes == {"leaf", "left", "right", "both", "deep"}

\* The offsets, in the source, of the pages of the t-th B-tree.  No offset
\* is 0, which stands for "no child" (lines 626 and 635).
RootOf(t) == BLOCK_SIZE * (4 * (Len(Tables) - t) + 3)
LeftOf(t) == RootOf(t) - BLOCK_SIZE
RightOf(t) == LeftOf(t) - BLOCK_SIZE
DeepOf(t) == RootOf(t) + BLOCK_SIZE

\* load_page: the left child of the page at `off` and the right children of
\* its entries, 0 where there is none.
load_page(db, off) ==
    LET t == CHOOSE t \in DOMAIN Tables :
               off \in {RootOf(t), LeftOf(t), RightOf(t), DeepOf(t)}
    IN IF off = RootOf(t)
       THEN [left |-> IF db[t] \in {"left", "both", "deep"} THEN LeftOf(t) ELSE 0,
             rights |-> IF db[t] \in {"right", "both"} THEN <<RightOf(t), 0>>
                        ELSE <<0, 0>>]
       ELSE IF off = LeftOf(t)
       THEN [left |-> 0,
             rights |-> IF db[t] = "deep" THEN <<0, DeepOf(t)>> ELSE <<0>>]
       ELSE [left |-> 0, rights |-> <<0>>]

\* The databases given to compress_channel.
CopyDbs ==
    {db \in [DOMAIN Tables -> Shapes] :
       Cardinality({t \in DOMAIN Tables : db[t] # "leaf"}) <= MaxTrees}

\* compress_channel at line 475: the channels are made, the compressor is
\* spawned and `new` is 0.  `queue` holds the pages sent and not yet
\* received, `blob` the pages the compressor was given, in its order.
Copying(db) ==
    [pc |-> "begin", db |-> db, t |-> 1, new |-> 0, result |-> 0, dict |-> {},
     pending |-> <<>>, roots |-> <<>>, queue |-> <<>>, blob |-> <<>>, n |-> 0,
     size |-> 0]

InitCopy ==
    /\ graph = [c \in Chans |-> {}]
    /\ changes = [c \in Chans |-> {}]
    /\ revchanges = [c \in Chans |-> {}]
    /\ states = [c \in Chans |-> {}]
    /\ tags = [c \in Chans |-> {}]
    /\ apply_counter = [c \in Chans |-> 0]
    /\ internal_ = {}
    /\ external = {}
    /\ dep = {}
    /\ revdep = {}
    /\ last = [op |-> "init"]
    /\ call \in {Copying(db) : db \in CopyDbs}

\* Lines 609-613: copy of the next B-tree begins with its root pending.
CopyBegin ==
    /\ call.pc = "begin"
    /\ call' = [call EXCEPT !.pc = "copy", !.result = call.new, !.dict = {},
                            !.pending = <<<<RootOf(call.t), call.new>>>>,
                            !.new = @ + BLOCK_SIZE]
    /\ UNCHANGED <<graph, changes, revchanges, states, tags, apply_counter,
                   internal_, external, dep, revdep, last>>

\* Line 614 as it would be with pop_back.
pending_pop_back(pending) ==
    [page |-> pending[Len(pending)], rest |-> SubSeq(pending, 1, Len(pending) - 1)]

\* Line 614: pending.pop_front().
pending_pop(pending) == [page |-> pending[1], rest |-> Tail(pending)]

\* Lines 624-647: the children of the page in the order the cursor meets
\* them, each with the offset it is assigned.
copy_children(page, new) ==
    LET child(r) == r > 0
        old == (IF page.left # 0 THEN <<page.left>> ELSE <<>>)
               \o SelectSeq(page.rights, child)
    IN [j \in DOMAIN old |-> <<old[j], new + BLOCK_SIZE * (j - 1)>>]

\* Lines 614-649: one page is taken from the queue, copied into a buffer
\* with the new offsets of its children, and sent.
CopyPage ==
    LET p == pending_pop(call.pending)
        children == copy_children(load_page(call.db, p.page[1]), call.new)
        rights == {children[j][1] : j \in DOMAIN children}
                    \ {load_page(call.db, p.page[1]).left}
    IN /\ call.pc = "copy"
       /\ call.pending # <<>>
       /\ Len(call.queue) < PIPE_LEN
       /\ call' = IF rights \cap call.dict # {} THEN [call EXCEPT !.pc = "panic"]
                  ELSE [call EXCEPT
                          !.pending = p.rest \o children,
                          !.dict = @ \cup rights,
                          !.new = @ + BLOCK_SIZE * Len(children),
                          !.queue = Append(@, [old |-> p.page[1], offset |-> p.page[2],
                                               children |-> children])]
       /\ UNCHANGED <<graph, changes, revchanges, states, tags, apply_counter,
                      internal_, external, dep, revdep, last>>

\* Line 650 and the next call: the offset of the root is kept; after the
\* last B-tree the sender is dropped (line 536).
CopyEnd ==
    /\ call.pc = "copy"
    /\ call.pending = <<>>
    /\ call' = [call EXCEPT !.roots = Append(@, call.result),
                            !.t = @ + 1,
                            !.pc = IF call.t = Len(Tables) THEN "join" ELSE "begin"]
    /\ UNCHANGED <<graph, changes, revchanges, states, tags, apply_counter,
                   internal_, external, dep, revdep, last>>

\* Lines 451-463: the compressor is given a page.
Compress ==
    /\ call.queue # <<>>
    /\ call' = [call EXCEPT !.n = @ + BLOCK_SIZE,
                            !.blob = Append(@, Head(call.queue)),
                            !.queue = Tail(@)]
    /\ UNCHANGED <<graph, changes, revchanges, states, tags, apply_counter,
                   internal_, external, dep, revdep, last>>

\* Lines 464-471 and 537-546: the compressor ends and is joined.
CopyJoin ==
    /\ call.pc = "join"
    /\ call.queue = <<>>
    /\ call' = [call EXCEPT !.pc = "done", !.size = call.n]
    /\ UNCHANGED <<graph, changes, revchanges, states, tags, apply_counter,
                   internal_, external, dep, revdep, last>>

NextCopy == CopyBegin \/ CopyPage \/ CopyEnd \/ Compress \/ CopyJoin

SpecCopy == InitCopy /\ [][NextCopy]_vars

(* --------------------------------------------------------- properties --- *)

Succeeded(res) == res \in {"Ok(false)", "Ok(true)"}

\* The step is the call unrecord(ch, h).
Called(ch, h) == last'.op = "unrecord" /\ last'.ch = ch /\ last'.hash = h

\* The call unrecord(ch, h) of a change the channel holds returned Ok.
Unrecorded(ch, h) ==
    /\ Called(ch, h)
    /\ Succeeded(last'.res)
    /\ Has(internal_, h)
    /\ Has(changes[ch], GetOne(internal_, h))

UsedElsewhere(ch, id) == \E br \in Chans \ {ch} : Has(changes[br], id)

\* C1: unrecord of a change of the channel that some change of the channel
\* depends upon fails with ChangeIsDependedUpon, which carries the change
\* and one such dependent; a call that returns this error has modified no
\* table of the pristine.
C1_ChangeIsDependedUpon ==
    [][\A ch \in Chans, h \in Hashes :
         Called(ch, h) =>
           /\ (/\ Has(internal_, h)
               /\ Has(changes[ch], GetOne(internal_, h))
               /\ \E d \in Get(revdep, GetOne(internal_, h)) : Has(changes[ch], d))
              => /\ last'.res = "ChangeIsDependedUpon"
                 /\ last'.change_id = GetOne(internal_, h)
                 /\ last'.dependent \in Get(revdep, GetOne(internal_, h))
                 /\ Has(changes[ch], last'.dependent)
           /\ last'.res = "ChangeIsDependedUpon" => pristine' = pristine]_vars

C1_Refused ==
    /\ last.op = "unrecord"
    /\ last.res = "ChangeIsDependedUpon"
    /\ Has(changes[last.ch], last.dependent)
    /\ <<last.change_id, last.dependent>> \in revdep

SameTables(P, Q) ==
    /\ P.graph = Q.graph /\ P.changes = Q.changes /\ P.revchanges = Q.revchanges
    /\ P.states = Q.states /\ P.tags = Q.tags
    /\ P.internal = Q.internal /\ P.external = Q.external
    /\ P.dep = Q.dep /\ P.revdep = Q.revdep

\* A change may be applied to a channel that holds its dependencies and not
\* the change itself.
Applicable(ch, h) ==
    /\ ~(Has(internal_, h) /\ Has(changes[ch], GetOne(internal_, h)))
    /\ \A d \in Change(h).dependencies :
         Has(internal_, d) /\ Has(changes[ch], GetOne(internal_, d))

\* C2: in every reachable state, applying a change to a channel and
\* unrecording it at once succeeds and gives back the graph, changes,
\* revchanges, states, tags, internal, external, dep and revdep of the state.
C2_ApplyUnrecordInverse ==
    \A ch \in Chans, h \in Hashes :
       Applicable(ch, h) =>
         \E r \in {unrecord(apply_change(Txn, ch, h), ch, h)} :
            Succeeded(r.res) /\ SameTables(r.txn, Txn)

\* Scenario S2: hp was applied to the fresh pristine and unrecorded.
C2_FreshAgain ==
    /\ last.op = "unrecord" /\ last.hash = "hp" /\ last.res = "Ok(false)"
    /\ last.change_id # NoId
    /\ \A ch \in Chans : /\ graph[ch] = {} /\ changes[ch] = {} /\ revchanges[ch] = {}
                         /\ states[ch] = {} /\ tags[ch] = {}
    /\ internal_ = {} /\ external = {} /\ dep = {} /\ revdep = {}

\* The other halves of entry e in G.
DualsOf(G, e) ==
    IF PARENT \in e.flag
    THEN {f \in G : /\ f.flag = e.flag \ {PARENT} /\ f.by = e.by
                    /\ end_pos(f.k) = e.dest /\ f.dest = start_pos(e.k)}
    ELSE {f \in G : /\ f.flag = e.flag \cup {PARENT} /\ f.by = e.by
                    /\ start_pos(f.k) = e.dest /\ f.dest = end_pos(e.k)}

EdgeDuality ==
    \A ch \in Chans :
       /\ \A e \in graph[ch] : DualsOf(graph[ch], e) # {}
       /\ Cardinality({e \in graph[ch] : PARENT \in e.flag})
          = Cardinality({e \in graph[ch] : PARENT \notin e.flag})

DeletedInPairs ==
    \A ch \in Chans :
       last'.op = "unrecord" =>
         \A e \in graph[ch] \ graph'[ch] :
            DualsOf(graph[ch], e) \subseteq graph[ch] \ graph'[ch]

C4_ChannelEntriesGone ==
    [][\A ch \in Chans, h \in Hashes :
         Unrecorded(ch, h) =>
           /\ ~Has(changes'[ch], GetOne(internal_, h))
           /\ ~Has(revchanges'[ch], GetOne(changes[ch], GetOne(internal_, h)))
           /\ ~Has(tags'[ch], GetOne(changes[ch], GetOne(internal_, h)))]_vars

\* A tagged change was unrecorded.
C4_TaggedUnrecorded ==
    /\ last.op = "unrecord" /\ Succeeded(last.res)
    /\ last.untagged /\ last.ts # NoId

\* C5: after a successful unrecord of a change that no other channel holds,
\* internal has not its hash, external, dep and revdep have not its id as
\* a key, and revdep has not its id under any of its dependencies.
C5_Purged ==
    [][\A ch \in Chans, h \in Hashes :
         (Unrecorded(ch, h) /\ ~UsedElsewhere(ch, GetOne(internal_, h))) =>
           /\ ~Has(internal_', h)
           /\ ~Has(external', GetOne(internal_, h))
           /\ ~Has(dep', GetOne(internal_, h))
           /\ ~Has(revdep', GetOne(internal_, h))
           /\ \A d \in Change(h).dependencies :
                <<GetOne(internal_, d), GetOne(internal_, h)>> \notin revdep']_vars

\* A change with a dependency was purged, its dependency is still known.
C5_DependentPurged ==
    /\ last.op = "unrecord" /\ last.hash = "hq" /\ last.res = "Ok(false)"
    /\ last.change_id # NoId
    /\ Has(internal_, "hp")

\* C6: a successful unrecord of a known hash returns true if and only if
\* another channel holds the change; when it returns false the
\* cross-channel entries of the change are gone.
C6_ReturnsUsedElsewhere ==
    [][\A ch \in Chans, h \in Hashes :
         Unrecorded(ch, h) =>
           /\ last'.res = "Ok(true)" <=> UsedElsewhere(ch, GetOne(internal_, h))
           /\ last'.res = "Ok(false)" =>
                ~Has(internal_', h) /\ ~Has(external', GetOne(internal_, h))]_vars

C6_ReturnedTrue ==
    /\ last.op = "unrecord" /\ last.res = "Ok(true)"
    /\ UsedElsewhere(last.ch, last.change_id)

\* C7: a successful unrecord of a change that another channel holds leaves
\* internal, external, dep and revdep as they were.
C7_CrossChannelFrame ==
    [][\A ch \in Chans, h \in Hashes :
         (Unrecorded(ch, h) /\ UsedElsewhere(ch, GetOne(internal_, h))) =>
           /\ internal_' = internal_ /\ external' = external
           /\ dep' = dep /\ revdep' = revdep]_vars

C7_StillKnown ==
    /\ last.op = "unrecord" /\ Succeeded(last.res) /\ last.consulted
    /\ ~Has(changes[last.ch], last.change_id)
    /\ Has(internal_, last.hash)
    /\ Has(external, last.change_id)

\* C8: unrecord of a hash that internal does not know returns Ok(false),
\* modifies no table of the pristine and does not fetch the change.
C8_UnknownHash ==
    [][\A ch \in Chans, h \in Hashes :
         (Called(ch, h) /\ ~Has(internal_, h)) =>
           /\ last'.res = "Ok(false)"
           /\ ~last'.consulted
           /\ pristine' = pristine]_vars

\* An unknown hash was unrecorded on a pristine that holds something.
C8_NothingDone ==
    /\ last.op = "unrecord" /\ last.res = "Ok(false)" /\ last.change_id = NoId
    /\ ~Has(internal_, last.hash)
    /\ internal_ # {}

\* C9: unrecord of a known hash whose change the channel does not hold
\* fails with ChangeNotInChannel, which carries the change's id, and has
\* modified no table of the pristine.
C9_ChangeNotInChannel ==
    [][\A ch \in Chans, h \in Hashes :
         (/\ Called(ch, h)
          /\ Has(internal_, h)
          /\ ~Has(changes[ch], GetOne(internal_, h))) =>
           /\ last'.res = "ChangeNotInChannel"
           /\ last'.change_id = GetOne(internal_, h)
           /\ pristine' = pristine]_vars

C9_NotInChannel ==
    /\ last.op = "unrecord" /\ last.res = "ChangeNotInChannel"
    /\ GetOne(internal_, last.hash) = last.change_id
    /\ ~Has(changes[last.ch], last.change_id)

\* The hashes of the changes of the store that delete a vertex of change p.
Deleting(p) ==
    {h \in Hashes :
       \E i \in DOMAIN Change(h).changes :
          /\ Change(h).changes[i].type = "EdgeMap"
          /\ \E j \in DOMAIN Change(h).changes[i].edges :
               /\ DELETED \in Change(h).changes[i].edges[j].flag
               /\ Change(h).changes[i].edges[j].to[1] = p}

\* In graph G the line that change p inserted is alive: it has an incoming
\* edge that is neither PARENT nor DELETED, and retrieve without the
\* deleted edges exposes it.
AliveAgain(G, p) ==
    \E v \in {find_block(G, <<p, 0>>)} :
       /\ v # NoVertex
       /\ \E e \in G : /\ e.dest = start_pos(v)
                       /\ PARENT \notin e.flag /\ DELETED \notin e.flag
       /\ v \in exposed(retrieve(G, <<ROOT, 0>>, FALSE))

\* After the step the line of hp lives and q has left no DELETED entry.
Revived(ch, q) ==
    /\ AliveAgain(graph'[ch], GetOne(internal_, "hp"))
    /\ \A e \in graph'[ch] : ~(DELETED \in e.flag /\ e.by = GetOne(internal_, q))

\* C10 as stated: hp inserted a line, q deleted it, both are applied;
\* unrecording q makes the line alive again and leaves no DELETED entry of q.
C10_AsStated ==
    [][\A ch \in Chans, q \in Deleting("hp") :
         Unrecorded(ch, q) => Revived(ch, q)]_vars

\* C10: hp inserted a line, q deleted it, both are applied and no other
\* change applied to the channel deletes the line; unrecording q makes the
\* line alive again and leaves no DELETED entry of q.
C10_OnlyDeleter ==
    [][\A ch \in Chans, q \in Deleting("hp") :
         (/\ Unrecorded(ch, q)
          /\ \A o \in Deleting("hp") \ {q} :
               ~(Has(internal_, o) /\ Has(changes[ch], GetOne(internal_, o)))) =>
           Revived(ch, q)]_vars

\* Scenario S5: hq was unrecorded and the line of hp is alive.
C10_LineBack ==
    /\ last.op = "unrecord" /\ last.hash \in Deleting("hp") /\ Succeeded(last.res)
    /\ last.consulted
    /\ Has(internal_, "hp")
    /\ AliveAgain(graph[last.ch], GetOne(internal_, "hp"))

\* C11: after a successful unrecord of change c on a channel, the channel's
\* graph has no vertex of c (as a key or under an edge's destination) and
\* no entry introduced by c; the entries of the other changes that are not
\* PSEUDO, and the vertices that other changes inserted, are all still there.
C11_NoResidue ==
    [][\A ch \in Chans, h \in Hashes :
         Unrecorded(ch, h) =>
           /\ \A e \in graph'[ch] :
                /\ e.k[1] # GetOne(internal_, h)
                /\ e.dest[1] # GetOne(internal_, h)
                /\ e.by # GetOne(internal_, h)
           /\ \A e \in graph[ch] :
                (e.by # GetOne(internal_, h) /\ PSEUDO \notin e.flag) => e \in graph'[ch]
           /\ \A v \in Vertices(graph[ch]) :
                v[1] \notin {GetOne(internal_, h), ROOT} => v \in Vertices(graph'[ch])]_vars

\* hp was unrecorded from a channel whose graph still holds other lines.
C11_OthersKept ==
    /\ last.op = "unrecord" /\ last.hash = "hp" /\ Succeeded(last.res)
    /\ last.consulted
    /\ \E e \in graph[last.ch] : e.k[1] # ROOT

\* In every channel the change at changes[c] = t is the one revchanges
\* has at t.
ChangesInRevchanges ==
    \A ch \in Chans : \A x \in changes[ch] :
       \E y \in revchanges[ch] : y[1] = x[2] /\ y[2][1] = x[1]

\* A call of unrecord that removes an entry of changes removes the entry
\* of revchanges at its timestamp, and no other.
RemovedTogether ==
    \A ch \in Chans :
       last'.op = "unrecord" =>
         {y[1] : y \in revchanges[ch]} \ {y[1] : y \in revchanges'[ch]}
           = {x[2] : x \in changes[ch] \ changes'[ch]}

\* C12: in every reachable state, for every channel and every change c
\* with changes[c] = t, revchanges has an entry at t whose change is c;
\* unrecord removes the two entries together.
C12_ChangesRevchanges == []ChangesInRevchanges /\ [][RemovedTogether]_vars

\* A change was unrecorded from a channel that holds other changes.
C12_OneOfSeveralGone ==
    /\ last.op = "unrecord" /\ Succeeded(last.res) /\ last.ts # NoId
    /\ changes[last.ch] # {}
    /\ \E x \in changes[last.ch] : x[2] > last.ts

\* revdep is the transpose of dep, and dep has under every change that a
\* channel holds the dependencies of its patch.
DepTransposed ==
    /\ revdep = {<<x[2], x[1]>> : x \in dep}
    /\ \A ch \in Chans : \A c \in Keys(changes[ch]) :
         /\ Has(external, c)
         /\ Get(dep, c) = {GetOne(internal_, d) :
                             d \in Change(GetOne(external, c)).dependencies}

\* The purge of a call of unrecord takes from dep the entries of the
\* change and from revdep their transposes, and nothing else.
PurgedExactly ==
    \A ch \in Chans, h \in Hashes :
       (Unrecorded(ch, h) /\ last'.res = "Ok(false)") =>
         /\ dep' = Del(dep, GetOne(internal_, h))
         /\ revdep' = revdep \ {<<x[2], x[1]>> :
                                  x \in {y \in dep : y[1] = GetOne(internal_, h)}}

\* C13: in every reachable state revdep is the transpose of dep and dep[c]
\* of every change c of a channel is the dependency list of its patch; the
\* purge of unrecord removes dep[c] and exactly the matching entries of
\* revdep.
C13_DepRevdep == []DepTransposed /\ [][PurgedExactly]_vars

\* hq was purged while another change still depends on hp.
C13_SiblingKept ==
    /\ last.op = "unrecord" /\ last.hash = "hq" /\ last.res = "Ok(false)"
    /\ last.consulted
    /\ revdep # {}

\* The steps of unrecord in the order the specification lists them.
StepOrder ==
    <<"lookup", "scan", "check", "remove", "fetch", "passA", "passB", "passC",
      "passD", "clean", "repair", "touch", "purge">>

IsPrefix(s, t) == Len(s) <= Len(t) /\ \A i \in 1..Len(s) : s[i] = t[i]

StepsDone == {call.done[i] : i \in 1..Len(call.done)}

\* The call that returned went through every step, the purge left out
\* when the change is used elsewhere, and left what unrecord as a whole
\* computes from the tables the transaction began with.
WholeCall ==
    (call.pc = "returned" /\ call.change_id # NoId) =>
       /\ call.done = IF call.unused THEN StepOrder
                      ELSE SubSeq(StepOrder, 1, Len(StepOrder) - 1)
       /\ \E r \in {unrecord(call.begin, call.ch, call.hash)} :
             r.res = call.res /\ SameTables(r.txn, Txn)

\* C14: within one call of unrecord the steps are taken in this order, each
\* once: internal lookup, cross-channel scan, dependents check, removal from
\* changes, revchanges and tags, fetch of the patch, the structural pass,
\* remove_zombies, the working-copy pass, the zombie-pseudo pass,
\* clean_obsolete_pseudo_edges, repair_cyclic_paths, the channel touch and
\* the purge.  The graph is as the transaction found it until the dependents
\* check has passed, and the cross-channel tables are as the transaction
\* found them until the last graph step is through.
C14_StepOrder ==
    call.pc # "idle" =>
       /\ IsPrefix(call.done, StepOrder)
       /\ "check" \notin StepsDone => graph = call.begin.graph
       /\ "touch" \notin StepsDone =>
             /\ internal_ = call.begin.internal
             /\ external = call.begin.external
             /\ dep = call.begin.dep
             /\ revdep = call.begin.revdep
       /\ WholeCall

\* A call went through all thirteen steps and changed the graph.
C14_AllSteps ==
    /\ call.pc = "returned"
    /\ call.done = StepOrder
    /\ graph # call.begin.graph
    /\ internal_ # call.begin.internal

\* The caller aborts and every table is as the transaction found it.
AbortRestores ==
    (call.pc = "failed" /\ call'.pc = "idle") =>
       /\ SameTables(Txn', call.begin)
       /\ apply_counter' = call.begin.apply_counter

LineDeleted(ch) ==
    /\ Has(internal_, "hp") /\ Has(changes[ch], GetOne(internal_, "hp"))
    /\ \E q \in Deleting("hp") :
          Has(internal_, q) /\ Has(changes[ch], GetOne(internal_, q))

\* The line of change p is in graph G with an incoming DELETED edge, and
\* retrieve from its inode without the deleted edges does not expose it.
DeletedInGraph(G, p) ==
    \E v \in {find_block(G, <<p, 0>>)} :
       /\ v # NoVertex
       /\ \E e \in G : e.dest = start_pos(v) /\ PARENT \notin e.flag /\ DELETED \in e.flag
       /\ v \notin exposed(retrieve(G, <<ROOT, 0>>, FALSE))

\* retrieve from the inode with the deleted edges exposes the line of p.
ExposedWithDeleted(G, p) ==
    find_block(G, <<p, 0>>) \in exposed(retrieve(G, <<ROOT, 0>>, TRUE))

\* C16: after hp, which inserts a line, and a change that deletes it, the
\* line is still in the graph with an incoming DELETED edge; retrieve from
\* its inode with include_deleted = false does not contain it and retrieve
\* with include_deleted = true does.
C16_DeletedLine ==
    \A ch \in Chans :
       LineDeleted(ch) =>
          /\ DeletedInGraph(graph[ch], GetOne(internal_, "hp"))
          /\ ExposedWithDeleted(graph[ch], GetOne(internal_, "hp"))

\* What holds of the deleted line: it is in the graph with its DELETED
\* edge and neither retrieve exposes it.
C16_NeverExposed ==
    \A ch \in Chans :
       LineDeleted(ch) =>
          /\ DeletedInGraph(graph[ch], GetOne(internal_, "hp"))
          /\ ~ExposedWithDeleted(graph[ch], GetOne(internal_, "hp"))

\* C17 as stated: the vertices that retrieve returns from the root
\* position with include_deleted = false are ROOT_VERTEX and the vertices
\* that have an incoming edge that is neither PARENT nor DELETED.
C17_AsStated ==
    (last.op = "retrieve" /\ ~last.include_deleted) =>
       last.lines = {v \in Vertices(graph["main"]) \cup {ROOT_VERTEX} :
                       Alive(graph["main"], v)}

\* C17: a vertex is in the graph that retrieve returns from the root
\* position with include_deleted = false if and only if it is ROOT_VERTEX,
\* or it has an incoming edge that is neither PARENT, DELETED nor PSEUDO and
\* is reached from ROOT_VERTEX along edges whose flags lie within
\* PSEUDO|BLOCK through vertices that have such an incoming edge.
C17_AliveAndReached ==
    (last.op = "retrieve" /\ ~last.include_deleted) =>
       last.lines = Reached({e \in graph["main"] : is_alive(graph["main"], e.k)},
                            {ROOT_VERTEX}, {PSEUDO, BLOCK})

\* retrieve returned a line two edges from the root and left a deleted
\* line out.
C17_DeletedAndNested ==
    /\ last.op = "retrieve" /\ ~last.include_deleted
    /\ LineB \in last.lines
    /\ LineA \in last.lines
    /\ LineC \notin last.lines

SameChannel(out, P, ch) ==
    /\ out.graph = P.graph[ch] /\ out.changes = P.changes[ch]
    /\ out.revchanges = P.revchanges[ch] /\ out.states = P.states[ch]
    /\ out.tags = P.tags[ch] /\ out.apply_counter = P.apply_counter[ch]

\* C19: restoring a tag file that from_channel produced into a fresh
\* pristine gives a channel with the graph, changes, revchanges, states and
\* tags of the channel that was serialised and its apply_counter, and the
\* assertions of the restorer do not fail.
C19_RoundTrip ==
    last.op = "restore_channel" =>
       /\ last.out.res = "Ok"
       /\ SameChannel(last.out, Txn, last.ch)

\* What holds: the round trip succeeds when every change of the file has
\* the identifier its hash starts with, and when it succeeds the channel
\* is the one that was serialised.
C19_RoundTripUnprobed ==
    last.op = "restore_channel" =>
       /\ (\A x \in last.file.offsets.external : x[1] = BaseId(x[2])) => last.out.res = "Ok"
       /\ last.out.res = "Ok" => SameChannel(last.out, Txn, last.ch)

\* C20: OpenTagFile::open and read_short with an expected state succeed
\* only if the state in the file's header is the expected one; otherwise
\* they fail with WrongHash carrying the expected state and the state of
\* the header, and give no handle or header.  The state that from_channel
\* writes is the current state of the channel, and is what it returns.
C20_ExpectedState ==
    /\ last.op \in {"open", "read_short"} =>
          /\ last.out.res = "Ok" <=> last.file.state = last.expected
          /\ last.out.res # "Ok" =>
                /\ last.out.res = "WrongHash"
                /\ last.out.expected = last.expected
                /\ last.out.got = last.file.state
                /\ "header" \notin DOMAIN last.out
    /\ last.op = "from_channel" =>
          /\ last.file.state = current_state(Txn, last.ch)
          /\ last.out = last.file.state

\* A file was opened with the state of the other channel and refused, the
\* two states being different and neither empty.
C20_Refused ==
    /\ last.op = "open"
    /\ last.out.res = "WrongHash"
    /\ last.expected # {} /\ last.file.state # {}

\* The buffers held by the two threads.
Held ==
    (IF call.prod = "send" THEN 1 ELSE 0) + (IF call.comp = "compress" THEN 1 ELSE 0)

\* C21: as long as no thread has failed, the buffers in the forward
\* channel, in the return channel and in the hands of the two threads are
\* PIPE_LEN in all, neither channel holds more than PIPE_LEN, and a thread
\* that is about to send finds room in the channel.
C21_BuffersInCirculation ==
    (call.pc = "pipe" /\ call.fault = "none") =>
       /\ Len(call.fwd) + call.back + Held = PIPE_LEN
       /\ Len(call.fwd) <= PIPE_LEN /\ call.back <= PIPE_LEN
       /\ call.prod = "send" => Len(call.fwd) < PIPE_LEN
       /\ call.comp = "compress" => call.back < PIPE_LEN

\* The forward channel is full: the producer sent PIPE_LEN pages before the
\* compressor took one.
C21_ForwardFull ==
    /\ call.pc = "pipe" /\ call.fault = "none"
    /\ Len(call.fwd) = PIPE_LEN
    /\ call.back = 0

\* The producer waits for a buffer, for room or for the thread; the
\* compressor waits for a page or for room.
ProducerBlocked ==
    \/ call.prod = "recv" /\ call.back = 0 /\ ~call.hung_up
    \/ call.prod = "send" /\ Len(call.fwd) = PIPE_LEN /\ ~call.hung_up
    \/ call.prod = "join" /\ call.comp \notin {"exited", "failed", "panicked"}

CompressorBlocked ==
    \/ call.comp = "recv" /\ call.fwd = <<>> /\ ~call.closed
    \/ call.comp = "compress" /\ call.back = PIPE_LEN /\ ~call.gone

\* The pages the compressor took are the first pages sent, in the order
\* they were sent.
ConsumedInOrder ==
    /\ Len(call.consumed) <= call.sent
    /\ \A i \in 1..Len(call.consumed) : call.consumed[i] = i

\* Every page was taken once, the stream is ended, the thread has returned
\* and the join has given its result.
PipeDone ==
    /\ call.prod = "done" /\ call.comp = "exited" /\ call.result = "Ok"
    /\ call.sent = call.pages /\ Len(call.consumed) = call.pages
    /\ call.fwd = <<>>

\* C22: when no thread fails the pipeline ends: the producer copies every
\* page and drops the sender, the compressor takes every page once and in
\* the order sent, ends the stream and returns, and the join returns; the
\* two threads are never both blocked.
C22_PipeTerminates ==
    /\ [](call.fault = "none" => (ConsumedInOrder /\ ~(ProducerBlocked /\ CompressorBlocked)))
    /\ <>(call.fault # "none" \/ PipeDone)

\* The pipeline ended after more pages than there are buffers.
C22_Ended ==
    /\ call.pc = "pipe" /\ PipeDone
    /\ call.pages > PIPE_LEN

\* C23: when the compressor thread has stopped early, the producer observes it
\* at its next send or receive, and what the caller of compress_channel gets
\* is the error Sync, never a panic.
C23_SurfacesAsSync ==
    (call.pc = "pipe" /\ call.fault = "compressor" /\ call.result # "none") =>
       call.result = "Sync"

\* What holds: after a failure the caller gets Sync or a panic, and the
\* producer is never left waiting for a thread that is gone.
C23_SyncOrPanic ==
    (call.pc = "pipe" /\ call.fault # "none") =>
       /\ call.result \in {"none", "Sync", "panic"}
       /\ ~(ProducerBlocked /\ call.comp \in {"exited", "failed", "panicked"})

\* v has a child that phase 1 of collect_zombies_pseudo looks at and that is
\* alive.
HasAliveChild(G, v) ==
    \E e \in G : /\ e.k = v /\ e.flag \cap {PARENT, DELETED} = {}
                 /\ is_alive(G, find_block(G, e.dest))

HasChild(G, v) == \E e \in G : e.k = v /\ e.flag \cap {PARENT, DELETED} = {}

Recorded(q) == {q[i] : i \in DOMAIN q}

\* What phase 1 queued, and what phase 2 queued.
Down(ws) ==
    Recorded(IF ws.ups = <<>> THEN ws.del_edges
             ELSE SubSeq(ws.del_edges, 1, ws.ups[1].del_len))
Up(ws) ==
    Recorded(IF ws.ups = <<>> THEN <<>>
             ELSE SubSeq(ws.del_edges, ws.ups[1].del_len + 1, Len(ws.del_edges)))

PseudoCollected == last.op = "collect_zombies_pseudo"

\* C24: in phase 1 of collect_zombies_pseudo no pseudo-edge of a visited
\* vertex that has an alive child is queued for deletion, and phase 2 is not
\* started from an origin that has an alive child.
C24_AliveChildKept ==
    PseudoCollected =>
       /\ \A v \in last.ws.first :
             HasAliveChild(last.before, v) => ~\E x \in Down(last.ws) : x[1] = v
       /\ last.ws.ups # <<>> => ~HasAliveChild(last.before, LineB)

\* C25: in phase 1 of collect_zombies_pseudo every vertex that had a first
\* visit has a finishing visit, and the pseudo-edges of a visited vertex
\* without children are all queued for deletion.
C25_EveryVisitFinished ==
    PseudoCollected =>
       /\ last.ws.first \subseteq last.ws.finished
       /\ \A v \in last.ws.first :
             ~HasChild(last.before, v) =>
                \A e \in last.before :
                   (e.k = v /\ PSEUDO \in e.flag) => <<v, e>> \in Down(last.ws)

\* v has an edge to a parent that is neither pseudo nor deleted.
Anchored(G, v) ==
    \E e \in G : e.k = v /\ PARENT \in e.flag /\ e.flag \cap {PSEUDO, DELETED} = {}

ZombiesOf(G, to) == collect_zombies(G, Deleter, start_pos(find_block(G, internal_pos(Txn, to, Deleter))))

\* C27: remove_zombies deletes only edges that the change introduced and
\* leaves every other edge as it was; collect_zombies queues exactly the
\* edges of the change that are adjacent to the vertices it visited.
C27_OnlyOwnEdges ==
    last.op = "remove_zombies" =>
       /\ graph["main"] \subseteq last.before
       /\ \A e \in last.before \ graph["main"] : e.by = Deleter
       /\ Recorded(ZombiesOf(last.before, last.to).del_edges)
          = {<<e.k, e>> : e \in {f \in last.before :
                                   /\ f.k \in ZombiesOf(last.before, last.to).parents
                                   /\ f.by = Deleter}}

\* remove_zombies deleted edges of the change on a graph where two lines
\* point to each other, and went through a pseudo-edge of another change.
C27_Removed ==
    /\ last.op = "remove_zombies"
    /\ graph["main"] # last.before
    /\ \E e \in graph["main"] : e.k = LineD /\ e.dest = start_pos(LineC)
    /\ \E e \in graph["main"] : e.k = LineC /\ e.dest = start_pos(LineD)
            /\ e.by # Deleter /\ PSEUDO \in e.flag
    /\ LineC \in ZombiesOf(last.before, last.to).parents
    /\ LineD \in ZombiesOf(last.before, last.to).parents

\* The edges from the root to hp's line that must_reintroduce takes for
\* siblings.
Siblings(current_id) ==
    {e \in graph["main"] : /\ e.k = ROOT_VERTEX /\ PARENT \notin e.flag
                           /\ e.dest = start_pos(HpLine)
                           /\ e.by # ROOT /\ e.by # current_id}

\* The changes that delete at hp's line an edge that change s had a part in.
DeletersAt(s) ==
    Range(change_deletes_position(Txn, s, <<"hp", HpLine[2]>>))

\* The changes reached from those of W through changes that internal knows.
RECURSIVE Walked(_)
Walked(W) ==
    LET more(N) == IF N \subseteq W THEN W ELSE Walked(W \cup N)
    IN more({GetOne(internal_, h) :
               h \in {x \in UNION {DeletersAt(s) : s \in W} : Has(internal_, x)}})

\* C28: must_reintroduce is true when the source has no sibling edge; false
\* when it has one and the source or the target is of the change `intro`;
\* otherwise false exactly when `intro` deletes-at-the-position-reaches from
\* a sibling's introducer through changes that internal knows.
C28_MustReintroduce ==
    last.op = "must_reintroduce" =>
       last.result =
          (IF Siblings(last.current_id) = {} THEN TRUE
           ELSE IF IdOf(last.intro) \in {ROOT_VERTEX[1], HpLine[1]} THEN FALSE
           ELSE ~\E s \in Walked({e.by : e \in Siblings(last.current_id)}) :
                    last.intro \in DeletersAt(s))

\* The only sibling edge is hx's; the walk went from hx to hy, came back to
\* hx, and found at hy the change that introduced the edge.
C28_WalkedCycle ==
    /\ last.op = "must_reintroduce"
    /\ ~last.result
    /\ last.intro = "hs"
    /\ {e.by : e \in Siblings(last.current_id)} = {IdOf("hx")}
    /\ Has(internal_, "hy")

\* The change whose knowledge the oracle asks for.
Introducer(edge, hash) == IF edge.introduced_by = "None" THEN hash ELSE edge.introduced_by

Splits(G) ==
    IF HpHead \in Vertices(G) THEN {<<ROOT_VERTEX, HpHead>>, <<HpHead, HpTail>>}
    ELSE {<<ROOT_VERTEX, HpLine>>}

FirstNewVertex(inode) ==
    Min({i \in DOMAIN call.atoms :
           call.atoms[i].type = "NewVertex" /\ call.atoms[i].inode = inode})

RemoveForwardCalls ==
    {k \in DOMAIN call.calls : call.calls[k].fn = "remove_forward_edges"}

\* C30: in the structural pass remove_forward_edges is called once for each
\* inode of a NewVertex atom, just before the unapply_newvertex of the first
\* such atom in the order of the pass, and for no other inode; every inode
\* of an atom is among the touched inodes that the last pass goes through.
C30_ForwardEdgesOnce ==
    call.pc \in {"structural", "zombies", "done", "failed"} =>
       /\ \A k \in RemoveForwardCalls :
             /\ call.atoms[call.calls[k].atom].type = "NewVertex"
             /\ call.atoms[call.calls[k].atom].inode = call.calls[k].inode
             /\ call.calls[k].atom = FirstNewVertex(call.calls[k].inode)
             /\ k < Len(call.calls)
             /\ call.calls[k + 1] = [fn |-> "unapply_newvertex",
                                     inode |-> call.calls[k].inode,
                                     atom |-> call.calls[k].atom]
             /\ \A m \in RemoveForwardCalls :
                   call.calls[m].inode = call.calls[k].inode => m = k
       /\ call.pc \in {"zombies", "done"} =>
             /\ \A i \in DOMAIN call.atoms :
                   call.atoms[i].type = "NewVertex" =>
                      \E k \in RemoveForwardCalls :
                         call.calls[k].inode = call.atoms[i].inode
             /\ Range(call.touched) = {call.atoms[i].inode : i \in DOMAIN call.atoms}
       /\ call.pc = "done" =>
             {call.calls[k].inode : k \in {m \in DOMAIN call.calls :
                                             call.calls[m].fn = "collect_zombies_pseudo"}}
             = {call.atoms[i].inode : i \in DOMAIN call.atoms}

\* The pass went through two lines of one inode, a line of another and an
\* edge map of a third, and called remove_forward_edges twice.
C30_ThreeInodes ==
    /\ call.pc = "done"
    /\ Len(call.atoms) = MaxLines + 1
    /\ Cardinality(RemoveForwardCalls) = 2
    /\ Cardinality(Range(call.touched)) = 3


\* C31: the working-tree pass calls, for every atom, what the listing says:
\* undo_file_deletion for an edge map whose (first) edge is FOLDER and
\* DELETED, undo_file_reinsertion for one that is FOLDER and not DELETED,
\* undo_file_addition for a FOLDER new vertex without down context, nothing
\* for any other atom; and never more than one call for an atom.
Listed(atom) ==
    LET map == atom.type = "EdgeMap" /\ Len(atom.edges) > 0
        folder == map /\ FOLDER \in atom.edges[1].flag
    IN {fn \in {"undo_file_deletion", "undo_file_reinsertion", "undo_file_addition"} :
          \/ fn = "undo_file_deletion" /\ folder /\ DELETED \in atom.edges[1].flag
          \/ fn = "undo_file_reinsertion" /\ folder /\ DELETED \notin atom.edges[1].flag
          \/ fn = "undo_file_addition" /\ atom.type = "NewVertex"
               /\ FOLDER \in atom.flag /\ Len(atom.down_context) = 0}
C31_Classified ==
    \A j \in DOMAIN call.calls :
       /\ Len(call.calls[j]) <= 1
       /\ {call.calls[j][n] : n \in DOMAIN call.calls[j]} = Listed(call.atoms[j])
C31_FolderWithContext ==
    /\ call.pc = "done"
    /\ Len(call.calls) = 2
    /\ call.atoms[1].type = "NewVertex" /\ FOLDER \in call.atoms[1].flag
    /\ call.atoms[1].down_context # <<>>
    /\ call.calls[1] = <<>>
    /\ call.calls[2] = <<"undo_file_deletion">>


\* C32: every channel holds the dependencies of each change it holds, and
\* a change that unrecord would purge (it is in the channel, in no other
\* channel, and no change of the channel depends on it) has no entry in
\* revdep, so that the assertion of line 88 holds and no call panics.
Closed(ch) ==
    \A x \in changes[ch] : \A d \in Get(dep, x[1]) : Has(changes[ch], d)
Purgeable(ch, id) ==
    /\ unused_in_other_channels(Txn, ch, id)
    /\ del_channel_changes(Txn, ch, id).err = "none"
C32_ClosedUnderDependencies ==
    /\ \A ch \in Chans : Closed(ch)
    /\ \A ch \in Chans : \A x \in changes[ch] :
          Purgeable(ch, x[1]) => ~Has(revdep, x[1])
    /\ last.res # "panic"
C32_PurgedUnderOthers ==
    /\ last.op = "unrecord" /\ last.res = "Ok(false)" /\ last.hash = "hq"
    /\ ~Has(internal_, "hq") /\ Has(internal_, "hp")
    /\ \A ch \in Chans : Has(changes[ch], GetOne(internal_, "hp"))


\* C33: a channel that holds changes holds one that del_channel_changes
\* does not refuse as depended upon, and a caller that keeps unrecording
\* such changes empties the channel.
Unrecords(ch, x) ==
    \E r \in {unrecord(Txn, ch, GetOne(external, x[1]))} :
       /\ r.res \in {"Ok(true)", "Ok(false)"}
       /\ r.txn.changes = [changes EXCEPT ![ch] = @ \ {x}]
C33_Drains ==
    /\ [](\A ch \in Chans : changes[ch] # {} => Undepended(ch) # {})
    /\ [](\A ch \in Chans : \A x \in Undepended(ch) : Unrecords(ch, x))
    /\ \A ch \in Chans : (changes[ch] # {}) ~> (changes[ch] = {})
C33_Drained ==
    /\ last.op = "unrecord" /\ last.res = "Ok(true)" /\ last.hash = "hp"
    /\ changes[last.ch] = {} /\ Has(internal_, "hp")
    /\ Has(revdep, GetOne(internal_, "hp"))


\* C34: a call of unrecord on a channel leaves the graph, changes,
\* revchanges, states and tags of every other channel as they were,
\* whatever it returns and whether or not the other channel holds the change.
OtherChannelsKept(ch) ==
    \A br \in Chans \ {ch} :
       /\ graph'[br] = graph[br]
       /\ changes'[br] = changes[br]
       /\ revchanges'[br] = revchanges[br]
       /\ states'[br] = states[br]
       /\ tags'[br] = tags[br]
C34_OtherChannelsKept ==
    [][last'.op = "unrecord" => OtherChannelsKept(last'.ch)]_vars
C34_HeldElsewhere ==
    /\ last.op = "unrecord" /\ last.res = "Ok(true)" /\ last.hash = "hp"
    /\ ~Has(changes[last.ch], last.change_id)
    /\ \E br \in Chans \ {last.ch} :
          /\ Has(changes[br], last.change_id)
          /\ graph[br] # {} /\ tags[br] # {}

\* C35: the graph that the pass over the touched inodes leaves is the same
\* for every order of the same inodes, and the queue of edges to delete is
\* empty whenever the pass comes to an inode.
SameInodes(o, p) == {o[i] : i \in DOMAIN o} = {p[i] : i \in DOMAIN p}
PassedAs(touched) ==
    unapply_pseudo_in(Txn, last.before, Leaver, touched, 1, Workspace)
C35_QueueEmpty ==
    last.op = "unapply_pseudo" => \A i \in DOMAIN last.entered : last.entered[i] = 0
Sent == call.blob \o call.queue
At(off) == Sent[(off \div BLOCK_SIZE) + 1]
Designates(pair) ==
    /\ pair[2] % BLOCK_SIZE = 0
    /\ pair[2] < BLOCK_SIZE * Len(Sent) => At(pair[2]).old = pair[1]
    /\ call.pc = "done" => pair[2] < call.size
C36_PagesInOrder ==
    /\ \A k \in DOMAIN Sent : Sent[k].offset = BLOCK_SIZE * (k - 1)
    /\ \A k \in DOMAIN Sent : \A j \in DOMAIN Sent[k].children :
          Designates(Sent[k].children[j])
    /\ \A t \in DOMAIN call.roots : Designates(<<RootOf(t), call.roots[t]>>)
    /\ call.pc = "done" =>
         /\ call.size = BLOCK_SIZE * Len(Sent)
         /\ Len(call.roots) = Len(Tables)
         /\ call.blob = Sent
C36_DeepCopied ==
    /\ call.pc = "done"
    /\ call.db[3] = "deep" /\ call.db[5] = "both"
    /\ Len(call.blob) = Len(Tables) + 4
    /\ call.roots[4] = call.roots[3] + 3 * BLOCK_SIZE

\* ---------------------------------------------------------------------
\* The shape of a retrieved graph
\* ---------------------------------------------------------------------

\* The child range of the vertex at slot n of a retrieved graph, as
\* indices of the flat child array.
ChildRange(gr, n) ==
    (gr.lines[n].children + 1)..(gr.lines[n].children + gr.lines[n].n_children)

\* Slot n has a range inside the child array, made of edges that are
\* neither PARENT nor to the vertex itself, closed by one sentinel.
RangeShaped(gr, n) ==
    /\ gr.lines[n].n_children >= 1
    /\ ChildRange(gr, n) \subseteq DOMAIN gr.children
    /\ \A j \in ChildRange(gr, n) :
          IF j = gr.lines[n].children + gr.lines[n].n_children
          THEN gr.children[j] = <<{}, DUMMY_ID>>
          ELSE \E e \in gr.children[j][1] :
                  /\ gr.children[j][1] = {e}
                  /\ PARENT \notin e.flag
                  /\ e.dest # start_pos(gr.lines[n].vertex)

WellFormed(gr, pos0) ==
    /\ Len(gr.lines) >= 2
    /\ gr.lines[1] = AliveVertex(NoVertex, {})
    /\ gr.lines[2].vertex = inode_vertex(pos0)
    /\ \A n \in 2..Len(gr.lines) : RangeShaped(gr, n)
    /\ \A n, m \in 2..Len(gr.lines) :
          n # m => ChildRange(gr, n) \cap ChildRange(gr, m) = {}
    /\ \A j \in DOMAIN gr.children :
          \E n \in 2..Len(gr.lines) : j \in ChildRange(gr, n)

\* C37: the graph retrieve returns has DUMMY at slot 0 and the starting
\* vertex at slot 1; the child range of every vertex other than DUMMY lies
\* inside the child array, is made of edges followed by exactly one
\* (None, DUMMY) sentinel, holds no PARENT edge and no edge to the
\* vertex's own start position, and the ranges of distinct vertices are
\* disjoint and cover the whole child array.
C37_WellFormed ==
    \A include_deleted \in BOOLEAN :
       \E gr \in {retrieve(graph["main"], <<ROOT, 0>>, include_deleted)} :
          ~gr.panic => WellFormed(gr, <<ROOT, 0>>)

\* retrieve has returned a graph of four vertices or more, one of them
\* with two children before its sentinel.
C37_Branching ==
    /\ last.op = "retrieve"
    /\ \E gr \in {retrieve(graph["main"], <<ROOT, 0>>, last.include_deleted)} :
          /\ ~gr.panic
          /\ Len(gr.lines) >= 5
          /\ \E n \in 2..Len(gr.lines) : gr.lines[n].n_children >= 3

\* ---------------------------------------------------------------------
\* retrieve ends
\* ---------------------------------------------------------------------

RECURSIVE inserted_bytes(_, _)
inserted_bytes(lines, n) ==
    IF n > Len(lines) THEN 0
    ELSE (lines[n].vertex[3] - lines[n].vertex[2]) + inserted_bytes(lines, n + 1)

\* In a call of retrieve with local state st that has popped the ids of
\* `popped`: no vertex twice on lines, no id popped twice, only alive
\* vertices after the two initial slots, and total_bytes their lengths.
Economical(G, st, popped) ==
    /\ \A n, m \in DOMAIN st.lines : st.lines[n].vertex = st.lines[m].vertex => n = m
    /\ \A i, j \in DOMAIN popped : popped[i] = popped[j] => i = j
    /\ \A n \in 3..Len(st.lines) : is_alive(G, st.lines[n].vertex)
    /\ st.total_bytes = inserted_bytes(st.lines, 3)

\* C38: retrieve terminates on every finite graph, cycles included: each
\* vertex is inserted into lines at most once and expanded at most once,
\* a destination that is not alive is never inserted, and total_bytes is
\* the sum of the lengths of the inserted vertices other than the two
\* initial slots.
C38_Terminates ==
    /\ [](call.pc = "retrieve" => Economical(graph["main"], call.st, last.popped))
    /\ (call.pc = "retrieve") ~> (call = Idle)

\* retrieve has returned both lines of a cycle and has left out a line a
\* deleted edge leads to.
C38_CycleRetrieved ==
    /\ last.op = "retrieve" /\ last.include_deleted
    /\ call = Idle
    /\ {LineB, LineC} \subseteq last.lines
    /\ \E e \in graph["main"] :
          /\ e.k = LineC /\ e.dest = start_pos(LineB) /\ PARENT \notin e.flag
    /\ \E e \in graph["main"] :
          /\ e.k = ROOT_VERTEX /\ e.dest = start_pos(LineA)
          /\ DELETED \in e.flag /\ PARENT \notin e.flag
    /\ LineA \notin last.lines

\* ---------------------------------------------------------------------
\* unapply_newvertex ends
\* ---------------------------------------------------------------------

\* The vertices of change_id in graph G that lie inside the atom.
Inside(G, change_id, new_vertex_) ==
    {v \in Vertices(G) : /\ v[1] = change_id
                         /\ new_vertex_.start <= v[2] /\ v[3] <= new_vertex_.end}

\* The vertices found are consecutive pieces from the start of the atom,
\* and none of them is in G any more.
Advanced(G, new_vertex_, found) ==
    /\ \A i \in DOMAIN found :
          /\ found[i] \notin Vertices(G)
          /\ found[i][2] = (IF i = 1 THEN new_vertex_.start ELSE found[i - 1][3])
          /\ found[i][3] <= new_vertex_.end

\* C39: unapply_newvertex terminates for every NewVertex atom and every
\* graph: each turn of its loop deletes every adjacent edge of the vertex
\* found, which find_block then finds no more, the loop goes through
\* consecutive pieces of [start, end), and on return the graph has no
\* vertex of change_id inside [start, end).
C39_Terminates ==
    /\ [](last.op \in {"call", "turn", "unapply_newvertex"}
            => Advanced(graph["main"], last.new_vertex, last.found))
    /\ [](last.op = "unapply_newvertex"
            => Inside(graph["main"], Cut, last.new_vertex) = {})
    /\ (call.pc = "unapply_newvertex") ~> (call = Idle)

\* unapply_newvertex has returned after it went through three pieces.
C39_ThreePieces ==
    /\ last.op = "unapply_newvertex" /\ call = Idle
    /\ Len(last.found) = MaxPieces

====
